---------------------------- MODULE Spec2Model ----------------------------
(***************************************************************************)
(* Model of remote_provisioners: RemoteProvisionerBase                     *)
(* (src/remote_provisioners/remote_provisioner.py) and its concrete        *)
(* variant ContainerProvisioner (src/remote_provisioners/container.py).    *)
(*                                                                         *)
(* One provisioner instance is modelled.  Its fields are the variables of  *)
(* the same name; the collaborators the code calls but does not define     *)
(* (the response channel, the container runtime behind the abstract        *)
(* methods, the operating system's sockets and processes) are the          *)
(* environment: every answer they can give is a nondeterministic choice.   *)
(* Time is counted in milliseconds.                                        *)
(***************************************************************************)
EXTENDS Integers, Sequences, FiniteSets, TLC

VARIABLES
    pc,                  \* where the provisioner's caller stands in the lifecycle
    error,               \* the exception the last operation raised, "" if none
    \* ---- configuration (module-level values and traits, fixed once drawn)
    port_range,          \* the configured port range, as its ".."-separated fields
    tunneling_enabled,
    authorized_users,
    unauthorized_users,
    prohibited_uids,
    prohibited_gids,
    \* ---- fields of the provisioner
    lower_port,
    upper_port,
    start_time,
    assigned_ip,
    assigned_host,
    comm_ip,
    comm_port,
    kernel_username,
    tunnel_processes,
    local_proc,
    ip,
    pid,
    pgid,
    container_name,
    connection_info,
    \* ---- what pre_launch returned
    env,
    \* ---- a second provisioner of the same class: the fields it has of its own
    peer,
    \* ---- environment
    now,                 \* the clock, in ms since the last pre_launch
    proc_status,         \* what the poll() of the launched local process would answer
    busy,                \* the ports other programs are bound to
    \* ---- a select_ports call in progress
    sel_pc,              \* "idle", "binding" (inside select_socket), "returned", "raised"
    count,
    ports,
    sockets,             \* the ports of the sockets select_ports holds bound
    retries,
    \* ---- a wait() call in progress
    waiting,
    \* ---- observation of the calls made (history)
    cycles,              \* launch_kernel calls, in all
    launches,            \* launch_kernel calls since the last pre_launch
    run_kills,           \* kill() calls made by the current confirmation run
    spawned,             \* ssh tunnel child processes spawned so far
    terminated,          \* process id -> number of terminate() calls on it
    last                 \* the last operation applied, what it returned and did

config_vars == <<port_range, tunneling_enabled, authorized_users, unauthorized_users,
                 prohibited_uids, prohibited_gids>>

range_vars == <<lower_port, upper_port>>

field_vars == <<start_time, assigned_ip, assigned_host, comm_ip, comm_port,
                kernel_username, tunnel_processes, local_proc, ip, pid, pgid,
                container_name, connection_info>>

env_vars == <<now, proc_status, busy>>

sel_vars == <<sel_pc, count, ports, sockets, retries>>

hist_vars == <<cycles, launches, run_kills, spawned, terminated>>

vars == <<pc, error, config_vars, peer, range_vars, field_vars, env, env_vars, sel_vars, waiting,
          hist_vars, last>>

---------------------------------------------------------------------------
(* Values *)

None == "None"

\* start_time = None
NoTime == -1

EmptyMap == [k \in {} |-> ""]

Get(map, key, default) == IF key \in DOMAIN map THEN map[key] ELSE default

\* dict.update
Update(map, other) ==
    [k \in (DOMAIN map) \cup (DOMAIN other) |->
        IF k \in DOMAIN other THEN other[k] ELSE map[k]]

\* del d[key] / d.pop(key, None)
Without(map, key) == [k \in (DOMAIN map) \ {key} |-> map[k]]

Range(f) == {f[k] : k \in DOMAIN f}

\* the record of an operation: its name, its argument, what it returned, how many
\* terminate_container_resources calls it made, the raw signals it handed to a
\* delivery tier, as <<tier, signum>>, the mapping it was given (the env of
\* the launch request, the payload of the response channel), and the delivery
\* tiers it tried, in order, each with how it turned out
Record(op, arg, result, released, forwarded, input, attempts) ==
    [op |-> op, arg |-> arg, result |-> result, released |-> released,
     forwarded |-> forwarded, input |-> input, attempts |-> attempts]

Did(op, arg, result, released) == Record(op, arg, result, released, {}, EmptyMap, <<>>)

Sent(op, arg, result, released, forwarded, attempts) ==
    Record(op, arg, result, released, forwarded, EmptyMap, attempts)

Given(op, input, released) == Record(op, 0, None, released, {}, input, <<>>)

---------------------------------------------------------------------------
(* Module-level settings *)

min_port_range_size == 1000

max_port_range_retries == 5

poll_interval == 500

max_poll_attempts == 10

default_kernel_uid == "1000"

default_kernel_gid == "100"

\* launch_timeout, in seconds (a configured trait; 30 by default)
LaunchTimeout == 1

\* how many times the lifecycle may be started over with pre_launch
MaxLaunches == 2

---------------------------------------------------------------------------
(* _validate_port_range *)

\* One ".."-separated field of the port_range string: int() parses it or
\* raises ValueError.
Field(n) == [num |-> TRUE, val |-> n]

NotANumber == [num |-> FALSE, val |-> 0]

Raised(ex) == [ok |-> FALSE, ex |-> ex, lower |-> 0, upper |-> 0]

Returned(lower, upper) == [ok |-> TRUE, ex |-> "", lower |-> lower, upper |-> upper]

validate_port(port) == ~(port < 1024 \/ port > 65535)

\* mutant: only the lower bound is validated
ValidatePortRange_LowerOnly(pr) ==
    IF ~pr[1].num THEN Raised("ValueError")
    ELSE IF Len(pr) < 2 THEN Raised("RuntimeError")
    ELSE IF ~pr[2].num THEN Raised("ValueError")
    ELSE LET lower == pr[1].val
             upper == pr[2].val
             port_range_size == upper - lower
         IN  IF port_range_size # 0
             THEN IF port_range_size < min_port_range_size THEN Raised("ValueError")
                  ELSE IF ~validate_port(lower) THEN Raised("ValueError")
                  ELSE Returned(lower, upper)
             ELSE Returned(lower, upper)

\* port_ranges = port_range.split(".."); int(port_ranges[0]); int(port_ranges[1]):
\* a non-numeric field raises ValueError (not caught), a missing second field
\* raises IndexError, re-raised as RuntimeError.
ValidatePortRange(pr) ==
    IF ~pr[1].num THEN Raised("ValueError")
    ELSE IF Len(pr) < 2 THEN Raised("RuntimeError")
    ELSE IF ~pr[2].num THEN Raised("ValueError")
    ELSE LET lower == pr[1].val
             upper == pr[2].val
             port_range_size == upper - lower
         IN  IF port_range_size # 0
             THEN IF port_range_size < min_port_range_size THEN Raised("ValueError")
                  ELSE IF ~validate_port(lower) THEN Raised("ValueError")
                  ELSE IF ~validate_port(upper) THEN Raised("ValueError")
                  ELSE Returned(lower, upper)
             ELSE Returned(lower, upper)

\* RemoteProvisionerBase.__init__ followed by ContainerProvisioner.__init__:
\* the fields get their initial values and the port range is validated; an
\* exception leaves no provisioner.
Construct ==
    /\ pc = "unbuilt"
    /\ LET r == ValidatePortRange(port_range)
       IN  /\ pc' = IF r.ok THEN "new" ELSE "no_provisioner"
           /\ error' = r.ex
           /\ lower_port' = r.lower
           /\ upper_port' = r.upper
    /\ last' = Did("__init__", 0, None, 0)
    /\ UNCHANGED <<config_vars, peer, field_vars, env, env_vars, sel_vars, waiting, hist_vars>>

---------------------------------------------------------------------------
(* pre_launch *)

Absent == "<absent>"

\* getpass.getuser()
CurrentUser == "gateway"

EnvKeys == {"KERNEL_USERNAME", "KERNEL_UID", "KERNEL_GID"}

\* the env of the launch request: a key is present unless its value is Absent
MkEnv(user, uid, gid) ==
    LET val(k) == CASE k = "KERNEL_USERNAME" -> user
                    [] k = "KERNEL_UID" -> uid
                    [] k = "KERNEL_GID" -> gid
    IN  [k \in {x \in EnvKeys : val(x) # Absent} |-> val(k)]

\* mutant: the unauthorized set is consulted only when no authorized set is given
EnforceAuthorization_AuthorizedWins(username) ==
    IF Cardinality(authorized_users) > 0
    THEN username \in authorized_users
    ELSE username \notin unauthorized_users

\* _enforce_authorization: TRUE when no PermissionError is raised
EnforceAuthorization(username) ==
    IF username \in unauthorized_users THEN FALSE
    ELSE IF Cardinality(authorized_users) > 0
         THEN username \in authorized_users
         ELSE TRUE

\* mutant: the gid is checked against the uid deny-set
EnforceProhibitedIds_GidAgainstUids(kernel_uid, kernel_gid) ==
    IF kernel_uid \in prohibited_uids THEN FALSE
    ELSE IF kernel_gid \in prohibited_uids THEN FALSE
    ELSE TRUE

\* _enforce_prohibited_ids: TRUE when no PermissionError is raised
EnforceProhibitedIds(kernel_uid, kernel_gid) ==
    IF kernel_uid \in prohibited_uids THEN FALSE
    ELSE IF kernel_gid \in prohibited_gids THEN FALSE
    ELSE TRUE

\* ContainerProvisioner.pre_launch: the base class resets the fields, settles
\* KERNEL_USERNAME and enforces authorization; the container variant then
\* enforces the prohibited ids and completes the env.
PreLaunch(request_env) ==
    /\ pc \in {"new", "denied", "confirmed", "timed_out", "failed"}
    /\ start_time' = NoTime
    /\ assigned_ip' = None
    /\ assigned_host' = ""
    /\ comm_ip' = None
    /\ comm_port' = 0
    /\ tunnel_processes' = EmptyMap
    /\ local_proc' = None
    /\ ip' = None
    /\ pid' = 0
    /\ pgid' = 0
    /\ LET username == Get(request_env, "KERNEL_USERNAME", CurrentUser)
           env1 == Update(request_env, [k \in {"KERNEL_USERNAME"} |-> username])
           kernel_uid == Get(env1, "KERNEL_UID", default_kernel_uid)
           kernel_gid == Get(env1, "KERNEL_GID", default_kernel_gid)
           env2 == Update(env1, [k \in {"KERNEL_UID", "KERNEL_GID"} |->
                                    IF k = "KERNEL_UID" THEN kernel_uid ELSE kernel_gid])
           allowed == /\ EnforceAuthorization(username)
                      /\ EnforceProhibitedIds(kernel_uid, kernel_gid)
       IN  /\ kernel_username' = username
           /\ pc' = IF allowed THEN "prelaunched" ELSE "denied"
           /\ error' = IF allowed THEN "" ELSE "PermissionError"
           /\ env' = IF allowed THEN env2 ELSE EmptyMap
    /\ launches' = 0
    /\ run_kills' = 0
    /\ now' = 0
    /\ proc_status' = "none"
    /\ last' = Given("pre_launch", request_env, 0)
    /\ UNCHANGED <<config_vars, peer, range_vars, container_name, connection_info, busy,
                   sel_vars, waiting, cycles, spawned, terminated>>

---------------------------------------------------------------------------
(* Port selection, as one call (the sockets are the operating system's) *)

\* the operating system's ephemeral ports, handed out for a bind to port 0
EphemeralPorts == 50001..50008

Lowest(S) == CHOOSE x \in S : \A y \in S : x <= y

\* a bind to port 0: the operating system picks a free port, none when all are
\* taken; its allocator is followed as handing out the lowest free port
OsChoices(free) == IF free = {} THEN {} ELSE {Lowest(free)}

\* random.randint(lower, upper): the ends of the range and one port inside are followed
PortSample(lower, upper) == {lower, lower + 1, upper}

\* mutant: the upper end of randint is one too far
GetCandidatePort_PastUpper(lower, upper) ==
    LET range_size == upper - lower
    IN  IF range_size = 0 THEN {0} ELSE PortSample(lower, upper + 1)

\* _get_candidate_port
GetCandidatePort(lower, upper) ==
    LET range_size == upper - lower
    IN  IF range_size = 0 THEN {0} ELSE PortSample(lower, upper)

\* sock.bind((ip, candidate)) followed by getsockname: the ports the socket can end
\* up bound to; none when the bind raises
Bind(candidate, bound) ==
    IF candidate = 0 THEN OsChoices(EphemeralPorts \ bound)
    ELSE IF candidate \in bound THEN {}
    ELSE {candidate}

\* select_socket: retries with a fresh candidate until a bind succeeds; gives up
\* (canfail) when more than max_port_range_retries binds in a row can fail
SelectSocket(lower, upper, bound) ==
    [ports |-> UNION {Bind(c, bound) : c \in GetCandidatePort(lower, upper)},
     canfail |-> \E c \in GetCandidatePort(lower, upper) : Bind(c, bound) = {}]

RECURSIVE SelectPortsFrom_CloseEarly(_, _, _, _, _)
\* mutant: each socket is closed as soon as its port is read
SelectPortsFrom_CloseEarly(n, lower, upper, bound, chosen) ==
    IF n = 0 THEN {[ok |-> TRUE, ports |-> chosen]}
    ELSE LET s == SelectSocket(lower, upper, bound)
         IN  UNION {SelectPortsFrom_CloseEarly(n - 1, lower, upper, bound,
                                               Append(chosen, p)) : p \in s.ports}
             \cup (IF s.canfail THEN {[ok |-> FALSE, ports |-> chosen]} ELSE {})

RECURSIVE SelectPortsFrom(_, _, _, _, _)
\* select_ports, from its i-th socket on: every socket stays bound until all the
\* ports are chosen.  ok = FALSE: select_socket raised RuntimeError.
SelectPortsFrom(n, lower, upper, bound, chosen) ==
    IF n = 0 THEN {[ok |-> TRUE, ports |-> chosen]}
    ELSE LET s == SelectSocket(lower, upper, bound)
         IN  UNION {SelectPortsFrom(n - 1, lower, upper, bound \cup {p},
                                    Append(chosen, p)) : p \in s.ports}
             \cup (IF s.canfail THEN {[ok |-> FALSE, ports |-> chosen]} ELSE {})

\* the local ports the live ssh tunnels listen on
TunnelPorts(procs, term) == {q.port : q \in {x \in procs : term[x.id] = 0}}

\* select_ports(n) while the tunnels of procs are up
SelectPorts(n, procs, term) ==
    SelectPortsFrom(n, lower_port, upper_port, busy \cup TunnelPorts(procs, term), <<>>)

---------------------------------------------------------------------------
(* Port selection, bind by bind *)

only_sel_vars_change ==
    UNCHANGED <<pc, config_vars, peer, range_vars, field_vars, env, env_vars, waiting, hist_vars,
                last>>

\* select_ports(n) up to the first bind of its first select_socket
SelectPortsCall(n) ==
    /\ pc = "new"
    /\ sel_pc \in {"idle", "returned", "raised"}
    /\ sel_pc' = IF n = 0 THEN "returned" ELSE "binding"
    /\ count' = n
    /\ ports' = <<>>
    /\ sockets' = <<>>
    /\ retries' = 0
    /\ error' = ""
    /\ UNCHANGED <<pc, config_vars, peer, range_vars, field_vars, env, env_vars, waiting,
                   hist_vars, last>>

\* mutant: each socket is closed as soon as its port is read
HoldSocket_CloseAtOnce(socks, p) == socks

\* sockets.append(sock): the socket stays bound while the other ports are chosen
HoldSocket(socks, p) == Append(socks, p)

\* mutant: the retries are compared with >=
RetriesExhausted_AtLimit(n) == n >= max_port_range_retries

\* retries > max_port_range_retries
RetriesExhausted(n) == n > max_port_range_retries

\* one pass of select_socket's loop: bind to a candidate port.  A bind that
\* succeeds ends select_socket: select_ports reads the port and keeps the socket,
\* and after the last one closes them all.  A bind that raises is counted, and
\* one failure too many raises RuntimeError out of select_ports.
BindAttempt ==
    /\ sel_pc = "binding"
    /\ \E candidate \in GetCandidatePort(lower_port, upper_port) :
        LET bound == Bind(candidate, busy \cup Range(sockets))
        IN  IF bound # {}
            THEN \E p \in bound :
                 /\ ports' = Append(ports, p)
                 /\ retries' = 0
                 /\ IF Len(ports) + 1 = count
                    THEN /\ sockets' = <<>>
                         /\ sel_pc' = "returned"
                    ELSE /\ sockets' = HoldSocket(sockets, p)
                         /\ sel_pc' = "binding"
                 /\ error' = error
            ELSE /\ retries' = retries + 1
                 /\ sel_pc' = IF RetriesExhausted(retries + 1)
                              THEN "raised" ELSE "binding"
                 /\ error' = IF RetriesExhausted(retries + 1)
                             THEN "RuntimeError" ELSE error
                 /\ UNCHANGED <<ports, sockets>>
    /\ count' = count
    /\ only_sel_vars_change

---------------------------------------------------------------------------
(* The connection payload and _setup_connection_info *)

ChannelNames == <<"SHELL", "IOPUB", "STDIN", "HB", "CONTROL">>

COMMUNICATION == "EG_COMM"

PortKeys == <<"shell_port", "iopub_port", "stdin_port", "hb_port", "control_port">>

LoopbackIp == "127.0.0.1"

\* localinterfaces.public_ips()[0]
local_ip == "10.0.0.1"

\* ip_is_local
IpIsLocal(addr) == addr \in {LoopbackIp, local_ip}

\* the ips a payload may carry
PayloadIps == {"10.0.0.5", "10.0.0.9"}

\* what the launcher reports: the five ports always, comm_port / pid / pgid when not 0
MkPayload(addr, comm, p, g) ==
    LET val(k) == CASE k = "shell_port" -> 1
                    [] k = "iopub_port" -> 2
                    [] k = "stdin_port" -> 3
                    [] k = "hb_port" -> 4
                    [] k = "control_port" -> 5
                    [] k = "comm_port" -> comm
                    [] k = "pid" -> p
                    [] k = "pgid" -> g
        keys == {"shell_port", "iopub_port", "stdin_port", "hb_port", "control_port"}
                    \cup (IF comm # 0 THEN {"comm_port"} ELSE {})
                    \cup (IF p # 0 THEN {"pid"} ELSE {})
                    \cup (IF g # 0 THEN {"pgid"} ELSE {})
    IN  [k \in keys \cup {"ip"} |-> IF k = "ip" THEN addr ELSE val(k)]

\* a pid or pgid entry whose text int() rejects
NotAnInteger == -1

\* a payload with one more entry
Carrying(payload, key, v) == Update(payload, [k \in {key} |-> v])

\* payloads whose pid entry is empty or not a number, with and without a pgid
UnusablePidPayloads ==
    {Carrying(MkPayload("10.0.0.5", 0, 0, g), "pid", v) :
        v \in {0, NotAnInteger}, g \in {0, 4320}}

Payloads ==
    {MkPayload(a, c, pg[1], pg[2]) :
        a \in PayloadIps, c \in {0, 6}, pg \in {<<0, 0>>, <<4321, 4320>>}}
    \cup UnusablePidPayloads

\* mutant: whatever the entry holds is taken for a process id
ParsedId_Unchecked(v) == v

\* if pid: try: int(pid) except ValueError: pid = None -- an entry that is empty
\* or not a number gives no process id (0 here)
ParsedId(v) == IF v = 0 \/ v = NotAnInteger THEN 0 ELSE v

\* one call made while a payload is received and applied, and whether it returned
Step(call, ok) == [call |-> call, ok |-> ok]

Times(n, x) == [j \in 1..n |-> x]

\* what a call leaves behind: whether it returned, the exception if not, the
\* fields it may have changed, and the calls it made, in order
Outcome(ok, ex, tp, cip, cport, ci, p, g, i, lp, sp, steps) ==
    [ok |-> ok, ex |-> ex, tunnel_processes |-> tp, comm_ip |-> cip, comm_port |-> cport,
     connection_info |-> ci, pid |-> p, pgid |-> g, ip |-> i, local_proc |-> lp,
     spawned |-> sp, steps |-> steps]

\* _update_connection with _extract_pid_info: pid and pgid leave the payload, the
\* rest is merged into connection_info
UpdateConnection(connect_info, tp, cip, cport, sp, steps) ==
    LET p == ParsedId(Get(connect_info, "pid", 0))
        g == ParsedId(Get(connect_info, "pgid", 0))
        rest == Without(Without(connect_info, "pid"), "pgid")
        moved == p # 0 \/ g # 0
    IN  Outcome(TRUE, "", tp, cip, cport, Update(connection_info, rest),
                IF p # 0 THEN p ELSE pid,
                IF g # 0 THEN g ELSE pgid,
                IF moved THEN assigned_ip ELSE ip,
                IF moved /\ ~IpIsLocal(assigned_ip) THEN None ELSE local_proc,
                sp, Append(steps, Step("_update_connection", TRUE)))

\* mutant: what the payload held so far reaches connection_info although the
\* setup raised
SetupRaised_Merged(ex, tp, cip, sp, steps) ==
    Outcome(FALSE, ex, tp, cip, comm_port,
            Update(connection_info, [k \in {"ip"} |-> LoopbackIp]),
            pid, pgid, ip, local_proc, sp, steps)

\* the exception leaves _setup_connection_info with what was done so far
SetupRaised(ex, tp, cip, sp, steps) ==
    Outcome(FALSE, ex, tp, cip, comm_port, connection_info, pid, pgid, ip, local_proc, sp,
            steps)

\* _create_ssh_tunnel for the first n of the five channels: process new_id + j
\* forwards lports[j] to rports[j]
KernelTunnel(j, lports, rports) ==
    [id |-> Cardinality(spawned) + j, port |-> lports[j], remote |-> rports[j]]

KernelTunnels(n, lports, rports) ==
    [ch \in {ChannelNames[j] : j \in 1..n} |->
        KernelTunnel(CHOOSE j \in 1..n : ChannelNames[j] = ch, lports, rports)]

\* rports = cf['shell_port'], cf['iopub_port'], cf['stdin_port'], cf['hb_port'],
\* cf['control_port']
RemotePorts(cf) == [j \in 1..5 |-> cf[PortKeys[j]]]

\* mutant: the listener's tunnel forwards to the kernel's shell port
TunneledCommPort_Shell(connect_info) == connect_info["shell_port"]

\* tunneled_comm_port = int(connect_info['comm_port']), read before the entry is
\* replaced by the local port
TunneledCommPort(connect_info) == connect_info["comm_port"]

\* how far the spawning of tunnels gets: the number of spawns that succeed before
\* one raises (6: none raises)
SpawnChoices == {0, 2, 5, 6}

\* mutant: the ip the payload carries is kept
AssignedIpOf_Payload(connect_info) == connect_info["ip"]

\* connect_info['ip'] = self.assigned_ip
AssignedIpOf(connect_info) == assigned_ip

\* mutant: the tunnels are opened whatever the check says
SshDenied_Never(passwordless) == FALSE

\* if not tunnel.try_passwordless_ssh(...): raise PermissionError
SshDenied(passwordless) == ~passwordless

\* _setup_connection_info(payload): every way it can end
SetupConnectionInfo(payload) ==
    LET ci1 == Update(payload, [k \in {"ip"} |-> AssignedIpOf(payload)])
    IN  IF ~tunneling_enabled
        THEN {UpdateConnection(ci1, tunnel_processes,
                               IF "comm_port" \in DOMAIN ci1 THEN ci1["ip"] ELSE comm_ip,
                               IF "comm_port" \in DOMAIN ci1 THEN ci1["comm_port"]
                               ELSE comm_port,
                               spawned, <<>>)}
        ELSE UNION {
          IF ~r5.ok
          THEN {SetupRaised("RuntimeError", tunnel_processes, comm_ip, spawned,
                            <<Step("select_ports", FALSE)>>)}
          ELSE UNION {
            LET checked == <<Step("select_ports", TRUE),
                             Step("try_passwordless_ssh", passwordless)>>
            IN  IF SshDenied(passwordless)
                THEN {SetupRaised("PermissionError", tunnel_processes, comm_ip, spawned,
                                  checked)}
                ELSE UNION {
                 LET n == IF k < 5 THEN k ELSE 5
                     made == KernelTunnels(n, r5.ports, RemotePorts(ci1))
                     tp5 == Update(tunnel_processes, made)
                     sp5 == spawned \cup Range(made)
                     ci2 == Update(ci1, [key \in {"ip"} \cup Range(PortKeys) |->
                               IF key = "ip" THEN LoopbackIp
                               ELSE r5.ports[CHOOSE j \in 1..5 : PortKeys[j] = key]])
                     opened == checked \o Times(n, Step("_spawn_ssh_tunnel", TRUE))
                     comm_raised(call) == SetupRaised("RuntimeError", tp5, ci2["ip"], sp5,
                                                      Append(opened, Step(call, FALSE)))
                 IN  IF k < 5
                     THEN {SetupRaised("RuntimeError", tp5, comm_ip, sp5,
                                       Append(opened, Step("_spawn_ssh_tunnel", FALSE)))}
                     ELSE IF "comm_port" \notin DOMAIN ci2
                     THEN {UpdateConnection(ci2, tp5, comm_ip, comm_port, sp5, opened)}
                     ELSE UNION {
                       IF ~rc.ok THEN {comm_raised("select_ports")}
                       ELSE IF k < 6
                       THEN {SetupRaised("RuntimeError", tp5, ci2["ip"], sp5,
                                opened \o <<Step("select_ports", TRUE),
                                            Step("_spawn_ssh_tunnel", FALSE)>>)}
                       ELSE LET proc == [id |-> Cardinality(sp5) + 1, port |-> rc.ports[1],
                                         remote |-> TunneledCommPort(ci2)]
                                tp6 == Update(tp5, [ch \in {COMMUNICATION} |-> proc])
                                ci3 == Update(ci2, [key \in {"comm_port"} |-> proc.port])
                            IN  {UpdateConnection(ci3, tp6, ci2["ip"], proc.port,
                                    sp5 \cup {proc},
                                    opened \o <<Step("select_ports", TRUE),
                                                Step("_spawn_ssh_tunnel", TRUE)>>)}
                       : rc \in SelectPorts(1, sp5, [x \in {q.id : q \in sp5} |->
                                   IF x \in DOMAIN terminated THEN terminated[x] ELSE 0])}
                 : k \in SpawnChoices}
            : passwordless \in BOOLEAN}
          : r5 \in SelectPorts(5, spawned, terminated)}

\* _setup_connection_info(None): the payload cannot take the assigned ip
SetupNullPayload ==
    SetupRaised("TypeError", tunnel_processes, comm_ip, spawned, <<>>)

\* what the response channel hands over, with every way applying it can end; a
\* null payload is recorded as an empty one
Received ==
    UNION {{<<payload, out>> : out \in SetupConnectionInfo(payload)} : payload \in Payloads}
    \cup {<<EmptyMap, SetupNullPayload>>}

---------------------------------------------------------------------------
(* The container runtime behind the abstract methods *)

\* get_initial_states (abstract): the states of a container that is starting or running
InitialStates == {"Pending", "Running"}

\* the host and ip a running container may be found on
Assignments == {<<"node1", "10.0.0.5">>, <<"gateway", "10.0.0.1">>}

ContainerName == "kernel-container"

\* get_container_status (abstract): what a query can answer, and what the variant
\* learns by it: no status while nothing is found; the container's name once it
\* has a status; the host and ip it runs on once it is running
StatusAnswers ==
    {[status |-> None, container_name |-> container_name,
      assigned_host |-> assigned_host, assigned_ip |-> assigned_ip]}
    \cup {[status |-> st, container_name |-> ContainerName,
           assigned_host |-> assigned_host, assigned_ip |-> assigned_ip] :
            st \in {"Pending", "Failed"}}
    \cup {[status |-> "Running", container_name |-> ContainerName,
           assigned_host |-> a[1], assigned_ip |-> a[2]] :
            a \in IF assigned_host = "" THEN Assignments
                  ELSE {<<assigned_host, assigned_ip>>}}

\* terminate_container_resources (abstract): what it may return
ReleaseResults == {None, "False"}

\* mutant: the release is attempted whether or not a container name is known
KillReleases_Always(name) == 1

\* ContainerProvisioner.kill: the number of terminate_container_resources calls
KillReleases(name) == IF name # None THEN 1 ELSE 0

\* what kill may return
KillResults(name) == IF KillReleases(name) > 0 THEN ReleaseResults ELSE {None}

---------------------------------------------------------------------------
(* launch_kernel and confirm_remote_startup *)

LocalPid == 1234

\* launch_kernel up to the first suspension of confirm_remote_startup: the local
\* process is started and the confirmation run takes its start time
LaunchKernel ==
    /\ pc = "prelaunched"
    /\ cycles < MaxLaunches
    /\ local_proc' = "proc"
    /\ pid' = LocalPid
    /\ ip' = local_ip
    /\ start_time' = now
    /\ proc_status' = "running"
    /\ pc' = "sleep"
    /\ error' = ""
    /\ cycles' = cycles + 1
    /\ launches' = launches + 1
    /\ last' = Did("launch_kernel", 0, None, 0)
    /\ UNCHANGED <<config_vars, peer, range_vars, assigned_ip, assigned_host, comm_ip, comm_port,
                   kernel_username, tunnel_processes, pgid, container_name, connection_info,
                   env, now, busy, sel_vars, waiting, run_kills, spawned, terminated>>

\* mutant: the timeout is raised without a kill
TimeoutKills_None(exceeded) == 0

\* handle_launch_timeout: the kill() calls it makes (one, before raising TimeoutError)
TimeoutKills(exceeded) == IF exceeded THEN 1 ELSE 0

\* mutant: the deadline is compared with >=
TimedOut_AtDeadline(time_interval_ms) == time_interval_ms >= LaunchTimeout * 1000

\* time_interval > self.launch_timeout, with time_interval = ms / 1000
TimedOut(time_interval_ms) == time_interval_ms > LaunchTimeout * 1000

\* one iteration's handle_launch_timeout: sleep a poll interval, then compare the
\* time since start_time with launch_timeout
HandleLaunchTimeout ==
    /\ pc = "sleep"
    /\ now' = now + poll_interval
    /\ IF TimedOut(now' - start_time)
       THEN /\ pc' = "timed_out"
            /\ error' = "TimeoutError"
            /\ run_kills' = run_kills + TimeoutKills(TRUE)
            /\ last' = Did("confirm_remote_startup", 0, None,
                           TimeoutKills(TRUE) * KillReleases(container_name))
       ELSE /\ pc' = "status"
            /\ last' = Did("confirm_remote_startup", 0, None, 0)
            /\ UNCHANGED <<error, run_kills>>
    /\ UNCHANGED <<config_vars, peer, range_vars, field_vars, env, proc_status, busy, sel_vars, waiting,
                   cycles, launches, spawned, terminated>>

\* mutant: an exit with status 0 counts as a fault
Faulted_AnyExit == proc_status \in {"exit0", "fault"}

\* local_proc.poll() > 0
Faulted == proc_status = "fault"

\* mutant: the response channel is read whether or not a host is assigned
ReadyToReceive_AnyHost(host) == TRUE

\* if self.assigned_host != ''
ReadyToReceive(host) == host # ""

\* the iteration's status query: with a status and a host the response channel is
\* read next; with a status and no host the loop goes on; without a status
\* detect_launch_failure looks at the local process
GetContainerStatus ==
    /\ pc = "status"
    /\ \E a \in StatusAnswers :
        /\ container_name' = a.container_name
        /\ assigned_host' = a.assigned_host
        /\ assigned_ip' = a.assigned_ip
        /\ IF a.status # None
           THEN /\ pc' = IF ReadyToReceive(a.assigned_host) THEN "receive" ELSE "sleep"
                /\ UNCHANGED <<error, local_proc>>
           ELSE IF local_proc # None /\ Faulted
           THEN /\ pc' = "failed"
                /\ error' = "RuntimeError"
                /\ local_proc' = None
           ELSE /\ pc' = "sleep"
                /\ UNCHANGED <<error, local_proc>>
        /\ last' = Did("confirm_remote_startup", 0, a.status, 0)
    /\ UNCHANGED <<config_vars, peer, range_vars, start_time, comm_ip, comm_port, kernel_username,
                   tunnel_processes, ip, pid, pgid, connection_info, env, env_vars,
                   sel_vars, waiting, hist_vars>>

\* the local process exits on its own
LocalProcExits ==
    /\ pc \in {"sleep", "status", "receive"}
    /\ proc_status = "running"
    /\ proc_status' \in {"exit0", "fault"}
    /\ UNCHANGED <<pc, error, config_vars, peer, range_vars, field_vars, env, now, busy,
                   sel_vars, waiting, hist_vars, last>>

\* terminated, extended to the processes spawned since
Extended(term, procs) ==
    [x \in {q.id : q \in procs} |-> IF x \in DOMAIN term THEN term[x] ELSE 0]

\* mutant: the loop goes on whatever the receive returned
AfterReceive_LoopsOn(ready_to_connect) == "sleep"

\* while not ready_to_connect: the loop is left once receive_connection_info
\* returned True
AfterReceive(ready_to_connect) == IF ready_to_connect THEN "confirmed" ELSE "sleep"

\* what response_manager.get_connection_info can raise: a timeout of the wait, or
\* anything else
ChannelExceptions == {"TimeoutError", "OSError"}

\* mutant: no exception is swallowed
Swallowed_None(exc) == FALSE

\* mutant: every exception is swallowed
Swallowed_Any(exc) == TRUE

\* type(e) is timeout or type(e) is TimeoutError or type(e) is asyncio.exceptions.TimeoutError
Swallowed(exc) == exc = "TimeoutError"

\* receive_connection_info, and for the container variant the two assignments
\* that follow it in the loop (pid = pgid = 0).
\* The response channel answers with a timeout, with another error or with a
\* payload; only a timeout is swallowed, every other exception (of the channel or
\* of _setup_connection_info) is followed by kill() and a RuntimeError.
ReceiveOf(container) ==
    /\ \/ \E exc \in ChannelExceptions :
          IF Swallowed(exc)
          THEN /\ pc' = AfterReceive(FALSE)
               /\ pid' = IF container THEN 0 ELSE pid
               /\ pgid' = IF container THEN 0 ELSE pgid
               /\ last' = Did("confirm_remote_startup", 0, exc, 0)
               /\ UNCHANGED <<error, comm_ip, comm_port, tunnel_processes, local_proc, ip,
                              connection_info, run_kills, spawned, terminated>>
          ELSE /\ pc' = "failed"
               /\ error' = "RuntimeError"
               /\ run_kills' = run_kills + 1
               /\ last' = Record("confirm_remote_startup", 0, exc,
                                 KillReleases(container_name), {}, EmptyMap,
                                 <<Step("get_connection_info", FALSE), Step("kill", TRUE)>>)
               /\ UNCHANGED <<comm_ip, comm_port, tunnel_processes, local_proc, ip, pid,
                              pgid, connection_info, spawned, terminated>>
       \/ \E r \in Received :
          LET payload == r[1]
              out == r[2]
              steps == <<Step("get_connection_info", TRUE)>> \o out.steps
          IN
          /\ tunnel_processes' = out.tunnel_processes
          /\ comm_ip' = out.comm_ip
          /\ comm_port' = out.comm_port
          /\ connection_info' = out.connection_info
          /\ ip' = out.ip
          /\ local_proc' = out.local_proc
          /\ spawned' = out.spawned
          /\ terminated' = Extended(terminated, out.spawned)
          /\ IF out.ok
             THEN /\ pc' = AfterReceive(TRUE)
                  /\ pid' = IF container THEN 0 ELSE out.pid
                  /\ pgid' = IF container THEN 0 ELSE out.pgid
                  /\ last' = Record("confirm_remote_startup", 0, None, 0, {}, payload,
                                    steps)
                  /\ UNCHANGED <<error, run_kills>>
             ELSE /\ pc' = "failed"
                  /\ error' = "RuntimeError"
                  /\ pid' = out.pid
                  /\ pgid' = out.pgid
                  /\ run_kills' = run_kills + 1
                  /\ last' = Record("confirm_remote_startup", 0, out.ex,
                                    KillReleases(container_name), {}, payload,
                                    Append(steps, Step("kill", TRUE)))
    /\ UNCHANGED <<config_vars, peer, range_vars, start_time, assigned_ip, assigned_host,
                   kernel_username, container_name, env, env_vars, sel_vars, waiting, cycles,
                   launches>>

ReceiveConnectionInfo ==
    /\ pc = "receive"
    /\ ReceiveOf(TRUE)

---------------------------------------------------------------------------
(* A variant that keeps what the base class does: confirm_remote_startup is the
   variant's own; the one followed here learns the host the kernel was started
   on and reads the response channel, and leaves pid, pgid and send_signal as
   RemoteProvisionerBase has them *)

VariantFindsHost ==
    /\ pc = "sleep"
    /\ \E a \in Assignments :
        /\ assigned_host' = a[1]
        /\ assigned_ip' = a[2]
    /\ pc' = "receive"
    /\ last' = Did("confirm_remote_startup", 0, None, 0)
    /\ UNCHANGED <<error, config_vars, peer, range_vars, start_time, comm_ip, comm_port,
                   kernel_username, tunnel_processes, local_proc, ip, pid, pgid,
                   container_name, connection_info, env, env_vars, sel_vars, waiting, hist_vars>>

VariantReceives ==
    /\ pc = "receive"
    /\ ReceiveOf(FALSE)

---------------------------------------------------------------------------
(* Operations on a launched kernel *)

SIGINT == 2

SIGKILL == 9

Signals == {0, SIGINT, SIGKILL}

\* the operations below are applied between the lifecycle's stages
Launched == pc \in {"confirmed", "timed_out", "failed"}

\* mutant: only a missing status counts as not yet running
PollResult_StartingIsZero(status) == IF status = None THEN None ELSE "0"

\* ContainerProvisioner.poll: None while the container has no status or is in an
\* initial state, else 0
PollResult(status) == IF status = None \/ status \in InitialStates THEN None ELSE "0"

\* poll() and everything that resolves to it
PollAs(op, arg) ==
    /\ \E a \in StatusAnswers :
        /\ container_name' = a.container_name
        /\ assigned_host' = a.assigned_host
        /\ assigned_ip' = a.assigned_ip
        /\ last' = Did(op, arg, PollResult(a.status), 0)
    /\ error' = ""
    /\ UNCHANGED <<pc, config_vars, peer, range_vars, start_time, comm_ip, comm_port,
                   kernel_username, tunnel_processes, local_proc, ip, pid, pgid,
                   connection_info, env, env_vars, sel_vars, waiting, hist_vars>>

Poll ==
    /\ Launched
    /\ PollAs("poll", 0)

\* a call made by kill, terminate or cleanup, with the restart flag it was given
Call(name, restart) == [call |-> name, restart |-> restart]

\* kill(restart): terminate_container_resources(restart=restart) when a container
\* name is known
KillCalls(name, restart) ==
    <<Call("kill", restart)>>
    \o (IF KillReleases(name) > 0
        THEN <<Call("terminate_container_resources", restart)>> ELSE <<>>)

\* terminate(restart): return await self.kill(restart=restart)
TerminateCalls(name, restart) == <<Call("terminate", restart)>> \o KillCalls(name, restart)

\* kill() and everything that resolves to it
KillAs(op, arg, calls) ==
    /\ \E result \in KillResults(container_name) :
        last' = Sent(op, arg, result, KillReleases(container_name), {}, calls)
    /\ error' = ""
    /\ UNCHANGED <<pc, config_vars, peer, range_vars, field_vars, env, env_vars, sel_vars, waiting,
                   hist_vars>>

KillWith(flags) ==
    /\ Launched
    /\ \E restart \in flags : KillAs("kill", 0, KillCalls(container_name, restart))

\* kill(), restart left at its default
Kill == KillWith({FALSE})

\* a kill() made by another coroutine while the confirmation run is suspended
KillDuringRun ==
    /\ pc \in {"sleep", "status", "receive"}
    /\ KillAs("kill", 0, KillCalls(container_name, FALSE))

\* ContainerProvisioner.terminate defers to kill
TerminateWith(flags) ==
    /\ Launched
    /\ \E restart \in flags :
          KillAs("terminate", 0, TerminateCalls(container_name, restart))

\* terminate(), restart left at its default
Terminate == TerminateWith({FALSE})

\* what can become of a request sent to the in-band listener
ListenerOutcomes == {"sent", "refused", "failed"}

\* what can become of os.killpg
GroupOutcomes == {"signalled", "OSError"}

\* one attempt to deliver a signal
Tried(tier, signum, outcome) == [tier |-> tier, signum |-> signum, outcome |-> outcome]

\* mutant: a refused connection counts as a failure of the listener
ListenerDelivered_SentOnly(outcome) == outcome = "sent"

\* _send_signal_via_listener returns True: the request was sent, or the connection
\* was refused (there is no process to signal)
ListenerDelivered(outcome) == outcome \in {"sent", "refused"}

\* mutant: the process is signalled without asking for its handle
HasLocalProc_Always(lp) == TRUE

\* if self.local_proc
HasLocalProc(lp) == lp # None

\* the exit codes local_proc.wait() can hand back
ExitCodes == {"0", "1"}

\* wait(): the local process's own wait when there is one, else poll() until it
\* answers or max_poll_attempts polls have been made; the last poll is the result
Wait ==
    /\ Launched
    /\ IF HasLocalProc(local_proc)
       THEN /\ \E code \in ExitCodes : last' = Did("wait", 0, code, 0)
            /\ error' = ""
            /\ UNCHANGED <<pc, config_vars, peer, range_vars, field_vars, env, env_vars,
                           sel_vars, waiting, hist_vars>>
       ELSE PollAs("wait", 0)

\* no wait() call is in progress
NoWait == [pc |-> "idle", polls |-> 0, slept |-> 0, poll_val |-> "0", delegated |-> FALSE]

\* mutant: the loop is left only when its attempts are used up
PollAnswered_Never(poll_val) == FALSE

\* if poll_val is None: sleep ... else: break
PollAnswered(poll_val) == poll_val # None

\* wait() is called: with a local process its wait() is the result; without one
\* poll_val = 0 and the loop over range(max_poll_attempts) is entered
WaitCall ==
    /\ Launched
    /\ waiting.pc = "idle"
    /\ IF HasLocalProc(local_proc)
       THEN \E code \in ExitCodes :
              waiting' = [NoWait EXCEPT !.pc = "returned", !.poll_val = code,
                                        !.delegated = TRUE]
       ELSE waiting' = [NoWait EXCEPT !.pc = "polling"]
    /\ UNCHANGED <<pc, error, config_vars, peer, range_vars, field_vars, env, env_vars,
                   sel_vars, hist_vars, last>>

\* the head of the for loop: poll_val = await self.poll() while attempts are left,
\* else the warning of the for's else clause and the return
WaitPoll ==
    /\ waiting.pc = "polling"
    /\ IF waiting.polls < max_poll_attempts
       THEN \E a \in StatusAnswers :
              /\ container_name' = a.container_name
              /\ assigned_host' = a.assigned_host
              /\ assigned_ip' = a.assigned_ip
              /\ waiting' = [waiting EXCEPT
                                !.polls = @ + 1,
                                !.poll_val = PollResult(a.status),
                                !.pc = IF PollAnswered(PollResult(a.status)) THEN "returned"
                                       ELSE "sleeping"]
       ELSE /\ waiting' = [waiting EXCEPT !.pc = "returned"]
            /\ UNCHANGED <<container_name, assigned_host, assigned_ip>>
    /\ UNCHANGED <<pc, error, config_vars, peer, range_vars, start_time, comm_ip, comm_port,
                   kernel_username, tunnel_processes, local_proc, ip, pid, pgid,
                   connection_info, env, env_vars, sel_vars, hist_vars, last>>

\* await asyncio.sleep(poll_interval) after a poll that answered None; the time
\* slept is kept with the call
WaitSleep ==
    /\ waiting.pc = "sleeping"
    /\ waiting' = [waiting EXCEPT !.slept = @ + poll_interval, !.pc = "polling"]
    /\ UNCHANGED <<pc, error, config_vars, peer, range_vars, field_vars, env, env_vars,
                   sel_vars, hist_vars, last>>

\* return poll_val
WaitReturn ==
    /\ waiting.pc = "returned"
    /\ waiting' = NoWait
    /\ last' = Record("wait", 0, waiting.poll_val, 0, {}, EmptyMap,
                      Times(waiting.polls, Step("poll", TRUE)))
    /\ UNCHANGED <<pc, error, config_vars, peer, range_vars, field_vars, env, env_vars,
                   sel_vars, hist_vars>>

\* mutant: the group signal is not followed by a return
Attempts_NoReturn(signum, listener, group) ==
    LET first == IF comm_port > 0 THEN <<Tried("listener", signum, listener)>> ELSE <<>>
        signal_delivered == comm_port > 0 /\ ListenerDelivered(listener)
        direct == <<Tried("process", signum, "signalled")>>
    IN  IF signal_delivered \/ ~HasLocalProc(local_proc) THEN first
        ELSE IF pgid > 0 THEN first \o <<Tried("group", signum, group)>> \o direct
        ELSE first \o direct

\* mutant: the process handle is signalled, the group never
Attempts_ProcessOnly(signum, listener, group) ==
    LET first == IF comm_port > 0 THEN <<Tried("listener", signum, listener)>> ELSE <<>>
        signal_delivered == comm_port > 0 /\ ListenerDelivered(listener)
        direct == <<Tried("process", signum, "signalled")>>
    IN  IF signal_delivered \/ ~HasLocalProc(local_proc) THEN first
        ELSE first \o direct

\* RemoteProvisionerBase.send_signal: the tiers it tries, in order, given how the
\* listener request and the group signal turn out.  The listener is tried when
\* comm_port > 0; the other two only when it did not deliver and a local process
\* handle is held: the group when pgid > 0, the handle when there is no group or
\* os.killpg raised OSError.
Attempts(signum, listener, group) ==
    LET first == IF comm_port > 0 THEN <<Tried("listener", signum, listener)>> ELSE <<>>
        signal_delivered == comm_port > 0 /\ ListenerDelivered(listener)
        direct == <<Tried("process", signum, "signalled")>>
    IN  IF signal_delivered \/ ~HasLocalProc(local_proc) THEN first
        ELSE IF pgid > 0
        THEN IF group = "signalled" THEN first \o <<Tried("group", signum, group)>>
             ELSE first \o <<Tried("group", signum, group)>> \o direct
        ELSE first \o direct

\* RemoteProvisionerBase.send_signal: the tiers the signal is handed to
Delivery(signum, listener, group) ==
    {<<a.tier, a.signum>> :
        a \in {x \in Range(Attempts(signum, listener, group)) :
                  x.outcome \in {"sent", "signalled"}}}

BaseSendSignal(signum) ==
    /\ \E listener \in ListenerOutcomes, group \in GroupOutcomes :
        last' = Sent("send_signal", signum, None, 0, Delivery(signum, listener, group),
                     Attempts(signum, listener, group))
    /\ error' = ""
    /\ UNCHANGED <<pc, config_vars, peer, range_vars, field_vars, env, env_vars, sel_vars, waiting,
                   hist_vars>>

\* mutant: every signal number is deferred to the base class
SendSignalAs_Raw(signum) == BaseSendSignal(signum)

\* ContainerProvisioner.send_signal
SendSignalAs(signum) ==
    IF signum = 0 THEN PollAs("send_signal", signum)
    ELSE IF signum = SIGKILL
    THEN KillAs("send_signal", signum, KillCalls(container_name, FALSE))
    ELSE BaseSendSignal(signum)

SendSignal ==
    /\ Launched
    /\ \E signum \in Signals : SendSignalAs(signum)

\* send_signal of a variant that does not override it
VariantSendSignal ==
    /\ Launched
    /\ \E signum \in Signals : BaseSendSignal(signum)

\* terminate() on a tunnel process (counted up to 2: twice or more)
TerminateAll(term, ids) ==
    [x \in DOMAIN term |-> IF x \in ids /\ term[x] < 2 THEN term[x] + 1 ELSE term[x]]

\* mutant: the communication tunnel is terminated but stays tracked
ShutdownTunnels_KeepEntry(tp) == tp

\* shutdown_listener: the entries of tunnel_processes it leaves
ShutdownTunnels(tp) == Without(tp, COMMUNICATION)

\* shutdown_listener (by way of shutdown_requested): with a comm port, the
\* shutdown request is sent, whatever becomes of it is swallowed, and the
\* communication tunnel is terminated and forgotten
ShutdownListener ==
    /\ Launched
    /\ IF comm_port > 0
       THEN /\ \E listener \in ListenerOutcomes :
                 last' = Did("shutdown_listener", 0, listener, 0)
            /\ IF COMMUNICATION \in DOMAIN tunnel_processes
               THEN /\ terminated' = TerminateAll(terminated,
                                                  {tunnel_processes[COMMUNICATION].id})
                    /\ tunnel_processes' = ShutdownTunnels(tunnel_processes)
               ELSE UNCHANGED <<terminated, tunnel_processes>>
       ELSE /\ last' = Did("shutdown_listener", 0, None, 0)
            /\ UNCHANGED <<terminated, tunnel_processes>>
    /\ error' = ""
    /\ UNCHANGED <<pc, config_vars, peer, range_vars, start_time, assigned_ip, assigned_host,
                   comm_ip, comm_port, kernel_username, local_proc, ip, pid, pgid,
                   container_name, connection_info, env, env_vars, sel_vars, waiting, cycles,
                   launches, run_kills, spawned>>

\* mutant: cleanup leaves the assigned ip as it was
CleanupAssignedIp_Kept(assigned) == assigned

\* self.assigned_ip = None
CleanupAssignedIp(assigned) == None

\* mutant: the tunnels are forgotten without being terminated
CleanupTerminates_None(tp) == {}

\* RemoteProvisionerBase.cleanup: the processes it terminates
CleanupTerminates(tp) == {tp[ch].id : ch \in DOMAIN tp}

\* cleanup(restart): await self.kill(), then super().cleanup(restart=restart), which
\* terminates the tunnels
CleanupCalls(name, restart) ==
    <<Call("cleanup", restart)>> \o KillCalls(name, FALSE)
    \o <<Call("RemoteProvisionerBase.cleanup", restart)>>

\* ContainerProvisioner.cleanup: kill(), then the base class forgets the assigned
\* ip and terminates and forgets every tunnel
CleanupWith(flags) ==
    /\ Launched
    /\ assigned_ip' = CleanupAssignedIp(assigned_ip)
    /\ terminated' = TerminateAll(terminated, CleanupTerminates(tunnel_processes))
    /\ tunnel_processes' = EmptyMap
    /\ \E restart \in flags :
          last' = Sent("cleanup", 0, None, KillReleases(container_name), {},
                       CleanupCalls(container_name, restart))
    /\ error' = ""
    /\ UNCHANGED <<pc, config_vars, peer, range_vars, start_time, assigned_host, comm_ip,
                   comm_port, kernel_username, local_proc, ip, pid, pgid, container_name,
                   connection_info, env, env_vars, sel_vars, waiting, cycles, launches, run_kills,
                   spawned>>

\* cleanup(), restart left at its default
Cleanup == CleanupWith({FALSE})

---------------------------------------------------------------------------
(* A second kernel: another ContainerProvisioner in the same process.  The fields
   __init__ assigns (self.start_time, self.comm_port, ...) are its own.
   connection_info is assigned by neither __init__ nor pre_launch: both
   provisioners reach, through self.connection_info, the one mapping KernelProvisionerBase
   holds as a class attribute, and _update_connection updates it in place.  The
   second kernel is followed with tunneling disabled. *)

\* the second provisioner as constructed
NoPeer ==
    [pc |-> "idle", start_time |-> NoTime, assigned_host |-> "", assigned_ip |-> None,
     comm_ip |-> None, comm_port |-> 0, pid |-> 0, pgid |-> 0, kills |-> 0]

\* the host the second kernel's container is found on
PeerAssignment == <<"node2", "10.0.0.7">>

\* launch_kernel of the second provisioner: its confirmation run starts its clock
PeerLaunchKernel ==
    /\ pc \notin {"unbuilt", "no_provisioner"}
    /\ peer.pc = "idle"
    /\ peer' = [peer EXCEPT !.pc = "sleep", !.start_time = now, !.pid = LocalPid + 1]
    /\ UNCHANGED <<pc, error, config_vars, range_vars, field_vars, env, env_vars,
                   sel_vars, waiting, hist_vars, last>>

\* handle_launch_timeout of the second provisioner
PeerHandleLaunchTimeout ==
    /\ peer.pc = "sleep"
    /\ now' = now + poll_interval
    /\ peer' = IF TimedOut(now' - peer.start_time)
               THEN [peer EXCEPT !.pc = "timed_out", !.kills = 1]
               ELSE [peer EXCEPT !.pc = "status"]
    /\ UNCHANGED <<pc, error, config_vars, range_vars, field_vars, env, proc_status,
                   busy, sel_vars, waiting, hist_vars, last>>

\* the status query of the second provisioner: no container yet, or a container
\* running on its host
PeerGetContainerStatus ==
    /\ peer.pc = "status"
    /\ \/ peer' = [peer EXCEPT !.pc = "sleep"]
       \/ peer' = [peer EXCEPT !.pc = "receive", !.assigned_host = PeerAssignment[1],
                                !.assigned_ip = PeerAssignment[2]]
    /\ UNCHANGED <<pc, error, config_vars, range_vars, field_vars, env, env_vars,
                   sel_vars, waiting, hist_vars, last>>

\* self.connection_info.update(connect_info) of the second provisioner
PeerUpdateConnection(payload) ==
    Update(connection_info,
           Without(Without(Update(payload, [k \in {"ip"} |-> peer.assigned_ip]), "pid"),
                   "pgid"))

\* receive_connection_info of the second provisioner, with the pid = pgid = 0 that
\* follows it
PeerReceiveConnectionInfo ==
    /\ peer.pc = "receive"
    /\ ~tunneling_enabled
    /\ \/ /\ \E exc \in ChannelExceptions :
                peer' = IF Swallowed(exc)
                        THEN [peer EXCEPT !.pc = "sleep", !.pid = 0, !.pgid = 0]
                        ELSE [peer EXCEPT !.pc = "failed", !.kills = 1]
          /\ UNCHANGED connection_info
       \/ \E payload \in Payloads :
          /\ connection_info' = PeerUpdateConnection(payload)
          /\ peer' = [peer EXCEPT !.pc = "confirmed", !.pid = 0, !.pgid = 0,
                                  !.comm_ip = IF "comm_port" \in DOMAIN payload
                                              THEN peer.assigned_ip ELSE peer.comm_ip,
                                  !.comm_port = Get(payload, "comm_port", peer.comm_port)]
    /\ UNCHANGED <<pc, error, config_vars, range_vars, start_time, assigned_ip,
                   assigned_host, comm_ip, comm_port, kernel_username, tunnel_processes,
                   local_proc, ip, pid, pgid, container_name, env, env_vars, sel_vars, waiting,
                   hist_vars, last>>

---------------------------------------------------------------------------
(* Specifications *)

\* the state before __init__ runs, but for the configuration
Unbuilt ==
    /\ pc = "unbuilt"
    /\ error = ""
    /\ lower_port = 0
    /\ upper_port = 0
    /\ start_time = NoTime
    /\ assigned_ip = None
    /\ assigned_host = ""
    /\ comm_ip = None
    /\ comm_port = 0
    /\ kernel_username = None
    /\ tunnel_processes = EmptyMap
    /\ local_proc = None
    /\ ip = None
    /\ pid = 0
    /\ pgid = 0
    /\ container_name = None
    /\ connection_info = EmptyMap
    /\ env = EmptyMap
    /\ peer = NoPeer
    /\ now = 0
    /\ proc_status = "none"
    /\ sel_pc = "idle"
    /\ count = 0
    /\ ports = <<>>
    /\ sockets = <<>>
    /\ retries = 0
    /\ waiting = NoWait
    /\ cycles = 0
    /\ launches = 0
    /\ run_kills = 0
    /\ spawned = {}
    /\ terminated = EmptyMap
    /\ last = Did("none", 0, None, 0)

Users == {"alice", "bob"}

\* the envs of the launch requests followed in the lifecycle
RequestEnvs == {MkEnv(Absent, Absent, Absent), MkEnv("bob", "0", Absent)}

\* the default configuration: no port range, nobody denied but uid and gid 0;
\* tunneling enabled or not
Init ==
    /\ Unbuilt
    /\ port_range = <<Field(0), Field(0)>>
    /\ tunneling_enabled \in BOOLEAN
    /\ authorized_users = {}
    /\ unauthorized_users = {}
    /\ prohibited_uids = {"0"}
    /\ prohibited_gids = {"0"}
    /\ busy = {}

Next ==
    \/ Construct
    \/ \E e \in RequestEnvs : PreLaunch(e)
    \/ LaunchKernel
    \/ HandleLaunchTimeout
    \/ GetContainerStatus
    \/ LocalProcExits
    \/ ReceiveConnectionInfo
    \/ Poll
    \/ SendSignal
    \/ Kill
    \/ Terminate
    \/ ShutdownListener
    \/ Cleanup

Spec == Init /\ [][Next]_vars

---------------------------------------------------------------------------
(* The confirmation run alone, with the progress the event loop gives it: a
   coroutine that can take its next step does take it *)

NextConfirm ==
    \/ Construct
    \/ \E e \in RequestEnvs : PreLaunch(e)
    \/ LaunchKernel
    \/ HandleLaunchTimeout
    \/ GetContainerStatus
    \/ LocalProcExits
    \/ ReceiveConnectionInfo

SpecConfirm ==
    /\ Init
    /\ [][NextConfirm]_vars
    /\ WF_vars(HandleLaunchTimeout)
    /\ WF_vars(GetContainerStatus)
    /\ WF_vars(ReceiveConnectionInfo)

---------------------------------------------------------------------------
(* Two kernels confirmed side by side; the second one is launched once, after the
   first one's launch request *)

InitTwo ==
    /\ Init
    /\ ~tunneling_enabled

NextTwo ==
    \/ Construct
    \/ /\ PreLaunch(MkEnv(Absent, Absent, Absent))
       /\ peer.pc = "idle"
    \/ LaunchKernel
    \/ HandleLaunchTimeout
    \/ GetContainerStatus
    \/ ReceiveConnectionInfo
    \/ SendSignal
    \/ PeerLaunchKernel
    \/ PeerHandleLaunchTimeout
    \/ PeerGetContainerStatus
    \/ PeerReceiveConnectionInfo

SpecTwo == InitTwo /\ [][NextTwo]_vars

---------------------------------------------------------------------------
(* The release of the container's resources, with either restart flag *)

NextRelease ==
    \/ Construct
    \/ PreLaunch(MkEnv(Absent, Absent, Absent))
    \/ LaunchKernel
    \/ HandleLaunchTimeout
    \/ GetContainerStatus
    \/ LocalProcExits
    \/ ReceiveConnectionInfo
    \/ KillWith(BOOLEAN)
    \/ KillDuringRun
    \/ TerminateWith(BOOLEAN)
    \/ CleanupWith(BOOLEAN)

SpecRelease == Init /\ [][NextRelease]_vars

---------------------------------------------------------------------------
(* wait() on a launched kernel, poll by poll *)

NextWait ==
    \/ Construct
    \/ PreLaunch(MkEnv(Absent, Absent, Absent))
    \/ LaunchKernel
    \/ HandleLaunchTimeout
    \/ GetContainerStatus
    \/ ReceiveConnectionInfo
    \/ WaitCall
    \/ WaitPoll
    \/ WaitSleep
    \/ WaitReturn

\* each step of a wait() in progress is taken once the event loop resumes it
SpecWait ==
    /\ Init
    /\ [][NextWait]_vars
    /\ WF_vars(WaitPoll)
    /\ WF_vars(WaitSleep)
    /\ WF_vars(WaitReturn)

---------------------------------------------------------------------------
(* Every operation of a launched kernel next to the confirmation run, for one
   request environment *)

NextFrame ==
    \/ Construct
    \/ PreLaunch(MkEnv(Absent, Absent, Absent))
    \/ LaunchKernel
    \/ HandleLaunchTimeout
    \/ GetContainerStatus
    \/ LocalProcExits
    \/ ReceiveConnectionInfo
    \/ Poll
    \/ Wait
    \/ SendSignal
    \/ Kill
    \/ Terminate
    \/ ShutdownListener
    \/ Cleanup

SpecFrame == Init /\ [][NextFrame]_vars

---------------------------------------------------------------------------
(* Signals sent to a kernel of the variant that keeps the base class's pid, pgid
   and send_signal *)

NextSignal ==
    \/ Construct
    \/ PreLaunch(MkEnv(Absent, Absent, Absent))
    \/ LaunchKernel
    \/ VariantFindsHost
    \/ VariantReceives
    \/ VariantSendSignal

SpecSignal == Init /\ [][NextSignal]_vars

---------------------------------------------------------------------------
(* Construction over the port ranges that can be configured *)

PortBounds == {0, 80, 1023, 1024, 2023, 2024, 2025, 64535, 65535, 65536, 66536}

\* "LOWER..UPPER" for the bounds above, and strings that are no such pair: the
\* empty string, a lone number, a pair with a missing or non-numeric bound
PortRangeInputs ==
    {<<Field(l), Field(u)>> : l \in PortBounds, u \in PortBounds}
    \cup {<<NotANumber>>, <<Field(5000)>>, <<Field(5000), NotANumber>>,
          <<NotANumber, Field(6000)>>, <<Field(1024), Field(2024), Field(3024)>>}

DefaultConfig ==
    /\ tunneling_enabled = FALSE
    /\ authorized_users = {}
    /\ unauthorized_users = {}
    /\ prohibited_uids = {"0"}
    /\ prohibited_gids = {"0"}

InitPortRange ==
    /\ Unbuilt
    /\ DefaultConfig
    /\ port_range \in PortRangeInputs
    /\ busy = {}

NextPortRange == Construct

SpecPortRange == InitPortRange /\ [][NextPortRange]_vars

---------------------------------------------------------------------------
(* Port selection over configured ranges and busy ports *)

SelectRanges ==
    {<<Field(0), Field(0)>>, <<Field(5000), Field(5000)>>, <<Field(1024), Field(2024)>>,
     <<Field(64535), Field(65535)>>, <<Field(2024), Field(65535)>>}

\* the ports of other programs: any of the ports the candidates are drawn from,
\* or the lowest ephemeral ports
BusyChoices(pr) ==
    IF pr[2].val - pr[1].val = 0
    THEN {{}, {50001}, {50002}, {50001, 50002}, EphemeralPorts}
    ELSE SUBSET PortSample(pr[1].val, pr[2].val)

\* the numbers of ports asked for
Counts == {0, 1, 2, 3}

InitSelect ==
    /\ Unbuilt
    /\ DefaultConfig
    /\ port_range \in SelectRanges
    /\ busy \in BusyChoices(port_range)

NextSelect ==
    \/ Construct
    \/ \E n \in Counts : SelectPortsCall(n)
    \/ BindAttempt

SpecSelect == InitSelect /\ [][NextSelect]_vars

---------------------------------------------------------------------------
(* pre_launch over the authorization settings and launch requests *)

UserSets == SUBSET {"alice", CurrentUser}

IdSets == {{}, {"0"}, {"0", "1000"}, {"100"}}

AllRequestEnvs ==
    {MkEnv(u, uid, gid) : u \in {Absent, "alice", "bob"}, uid \in {Absent, "0", "1000"},
                          gid \in {Absent, "0", "100"}}

InitAuth ==
    /\ Unbuilt
    /\ port_range = <<Field(0), Field(0)>>
    /\ tunneling_enabled = FALSE
    /\ authorized_users \in UserSets
    /\ unauthorized_users \in UserSets
    /\ prohibited_uids \in IdSets
    /\ prohibited_gids \in IdSets
    /\ busy = {}

\* a kernel that is launched never reports a host here: its confirmation run
\* ends with the timeout, and the next launch request follows
NextAuth ==
    \/ Construct
    \/ \E e \in AllRequestEnvs : PreLaunch(e)
    \/ LaunchKernel
    \/ HandleLaunchTimeout
    \/ /\ GetContainerStatus
       /\ assigned_host' = ""

SpecAuth == InitAuth /\ [][NextAuth]_vars

---------------------------------------------------------------------------
(* Properties *)

InLoop == pc \in {"sleep", "status", "receive"}

RunEnded == pc \in {"confirmed", "timed_out", "failed"}

\* the time since start_time, in ms
Elapsed == now - start_time

\* the state a confirmation run is left in by the receive that got a payload
JustReceived == last.op = "confirm_remote_startup" /\ last.input # EmptyMap

C2_IpIsTheAssignedIp ==
    (JustReceived /\ ~tunneling_enabled) =>
        (pc = "confirmed" /\ connection_info["ip"] = assigned_ip)

C2_Witness ==
    /\ JustReceived
    /\ ~tunneling_enabled
    /\ pc = "confirmed"
    /\ last.input["ip"] = "10.0.0.9"
    /\ assigned_ip = "10.0.0.5"
    /\ connection_info["ip"] = "10.0.0.5"

\* C2 as claimed: with tunneling disabled, a payload that is received ends the
\* run CONFIRMED and connection_info.ip is the ip the payload carried.
C2_IpIsThePayloadIp ==
    (JustReceived /\ ~tunneling_enabled) =>
        (pc = "confirmed" /\ connection_info["ip"] = last.input["ip"])

\* C3: with tunneling enabled, after a run is confirmed by a payload without
\* comm_port, connection_info.ip is 127.0.0.1, the five channel ports are pairwise
\* distinct local ports, and tunnel_processes holds exactly the five channel
\* names, each with a process of its own that forwards the channel's local port.
C3_FiveTunnels ==
    (JustReceived /\ tunneling_enabled /\ pc = "confirmed"
        /\ "comm_port" \notin DOMAIN last.input) =>
        /\ connection_info["ip"] = LoopbackIp
        /\ \A i \in 1..5 : \A j \in 1..5 :
              i # j => connection_info[PortKeys[i]] # connection_info[PortKeys[j]]
        /\ \A i \in 1..5 : connection_info[PortKeys[i]] \in EphemeralPorts
        /\ DOMAIN tunnel_processes = Range(ChannelNames)
        /\ \A i \in 1..5 :
              tunnel_processes[ChannelNames[i]].port = connection_info[PortKeys[i]]
        /\ Cardinality({tunnel_processes[ch].id : ch \in DOMAIN tunnel_processes}) = 5

C3_Witness ==
    /\ JustReceived
    /\ tunneling_enabled
    /\ pc = "confirmed"
    /\ "comm_port" \notin DOMAIN last.input
    /\ Cardinality(DOMAIN tunnel_processes) = 5
    /\ cycles = 2

\* the processes tunnel_processes tracks
Tracked(tp) == {tp[ch].id : ch \in DOMAIN tp}

\* C4: no tunnel process is ever terminated twice, and a cleanup() leaves
\* tunnel_processes empty, terminates every process it found tracked (for the
\* first and only time) and no other: not the one shutdown_listener terminated
\* and removed before, and none at all when nothing is tracked.
C4_CleanupTerminatesOnce ==
    /\ [](\A x \in DOMAIN terminated : terminated[x] <= 1)
    /\ [][last'.op = "cleanup" =>
            /\ tunnel_processes' = EmptyMap
            /\ \A x \in DOMAIN terminated :
                  terminated'[x] = IF x \in Tracked(tunnel_processes)
                                   THEN 1 ELSE terminated[x]]_vars

C4_Witness ==
    /\ last.op = "cleanup"
    /\ tunnel_processes = EmptyMap
    /\ Cardinality(spawned) = 6
    /\ \A x \in DOMAIN terminated : terminated[x] = 1

\* C5: every shutdown_listener() leaves no EG_COMM entry in tunnel_processes; the
\* process of the entry it found is terminated by it, once; every other entry
\* and process is left as it was; and no error is raised, whatever became of the
\* shutdown request.
C5_ShutdownListenerDropsCommTunnel ==
    [][last'.op = "shutdown_listener" =>
        /\ tunnel_processes' = Without(tunnel_processes, COMMUNICATION)
        /\ \A x \in DOMAIN terminated :
              terminated'[x] =
                 IF /\ COMMUNICATION \in DOMAIN tunnel_processes
                    /\ x = tunnel_processes[COMMUNICATION].id
                 THEN terminated[x] + 1 ELSE terminated[x]
        /\ error' = ""]_vars

C5_Witness ==
    /\ last.op = "shutdown_listener"
    /\ last.result = "refused"
    /\ DOMAIN tunnel_processes = Range(ChannelNames)
    /\ Cardinality(spawned) = 6
    /\ \E x \in DOMAIN terminated : terminated[x] = 1

\* C6: send_signal(0) and send_signal(SIGKILL) hand no raw signal to any tier.
\* send_signal(0) does what poll() does: it queries the container status,
\* returns None for no status or an initial state and 0 otherwise, and releases
\* nothing.  send_signal(SIGKILL) does what kill() does: it releases the
\* container's resources when a container name is known, returns what that
\* returned, and changes no field.
C6_SignalZeroPollsKillSignalKills ==
    /\ []((last.op = "send_signal" /\ last.arg \in {0, SIGKILL}) => last.forwarded = {})
    /\ [][(last'.op = "send_signal" /\ last'.arg = 0) =>
            /\ \E a \in StatusAnswers :
                  /\ last'.result = PollResult(a.status)
                  /\ container_name' = a.container_name
                  /\ assigned_host' = a.assigned_host
                  /\ assigned_ip' = a.assigned_ip
            /\ last'.released = 0
            /\ UNCHANGED <<pc, comm_ip, comm_port, tunnel_processes, local_proc, pid, pgid,
                           connection_info, hist_vars>>]_vars
    /\ [][(last'.op = "send_signal" /\ last'.arg = SIGKILL) =>
            /\ last'.released = (IF container_name # None THEN 1 ELSE 0)
            /\ last'.result \in (IF container_name # None THEN ReleaseResults ELSE {None})
            /\ UNCHANGED <<pc, field_vars, hist_vars>>]_vars

C6_Witness ==
    /\ last.op = "send_signal"
    /\ last.arg = SIGKILL
    /\ last.released = 1
    /\ comm_port > 0
    /\ local_proc # None

AfterPreLaunch == last.op = "pre_launch"

\* the user, uid and gid of the launch request pre_launch was given
RequestedUser == Get(last.input, "KERNEL_USERNAME", CurrentUser)

RequestedUid == Get(last.input, "KERNEL_UID", "1000")

RequestedGid == Get(last.input, "KERNEL_GID", "100")

UserDenied ==
    \/ RequestedUser \in unauthorized_users
    \/ authorized_users # {} /\ RequestedUser \notin authorized_users

IdsDenied == RequestedUid \in prohibited_uids \/ RequestedGid \in prohibited_gids

NothingLaunched == local_proc = None /\ launches = 0 /\ start_time = NoTime

\* C7: pre_launch raises PermissionError whenever the kernel's user is in the
\* unauthorized set, or the authorized set is not empty and does not hold it; a
\* user it does not deny this way is denied only for a prohibited uid or gid;
\* after the error nothing is launched.
C7_UnauthorizedUsersAreDenied ==
    AfterPreLaunch =>
        /\ kernel_username = RequestedUser
        /\ UserDenied => (pc = "denied" /\ error = "PermissionError" /\ NothingLaunched)
        /\ (~UserDenied /\ ~IdsDenied) => (pc = "prelaunched" /\ error = "")

C7_Witness ==
    /\ AfterPreLaunch
    /\ pc = "denied"
    /\ RequestedUser \in unauthorized_users
    /\ RequestedUser \in authorized_users
    /\ ~IdsDenied
    /\ cycles > 0

\* C8: container pre_launch raises PermissionError whenever the requested uid
\* (1000 when the env names none) is a prohibited uid or the requested gid (100
\* when the env names none) is a prohibited gid, and nothing is launched; when it
\* returns, the env holds the uid and gid that were checked, and neither is
\* prohibited.
C8_ProhibitedIdsAreDenied ==
    AfterPreLaunch =>
        /\ IdsDenied => (pc = "denied" /\ error = "PermissionError" /\ NothingLaunched)
        /\ pc = "prelaunched" =>
              /\ env["KERNEL_UID"] = RequestedUid
              /\ env["KERNEL_GID"] = RequestedGid
              /\ ~IdsDenied

C8_Witness ==
    /\ AfterPreLaunch
    /\ pc = "denied"
    /\ ~UserDenied
    /\ "KERNEL_GID" \notin DOMAIN last.input
    /\ RequestedUid \notin prohibited_uids
    /\ RequestedGid \in prohibited_gids
    /\ cycles > 0

\* the configured range is LOWER..UPPER (fields after the second are not read)
IsPair == Len(port_range) >= 2 /\ port_range[1].num /\ port_range[2].num

Lower == port_range[1].val

Upper == port_range[2].val

WideAndValid ==
    /\ Upper - Lower >= 1000
    /\ Lower >= 1024 /\ Lower <= 65535
    /\ Upper >= 1024 /\ Upper <= 65535

ConfiguredWide ==
    /\ 1024 <= lower_port
    /\ lower_port <= upper_port
    /\ upper_port <= 65535
    /\ upper_port - lower_port >= 1000

\* C10: with a configured range [L, U], 1024 <= L <= U <= 65535 and U - L >= 1000,
\* every port select_ports holds or returns lies in [L, U], whichever ports are
\* busy and however many binds failed.
C10_PortsInRange ==
    (pc = "new" /\ ConfiguredWide) =>
        /\ \A i \in 1..Len(ports) : ports[i] >= lower_port /\ ports[i] <= upper_port
        /\ \A i \in 1..Len(sockets) : sockets[i] >= lower_port /\ sockets[i] <= upper_port

C10_Witness ==
    /\ pc = "new"
    /\ ConfiguredWide
    /\ sel_pc = "returned"
    /\ Len(ports) = 2
    /\ busy # {}
    /\ ports[2] = upper_port

\* C11: a select_ports(n) that returns, returns n ports, pairwise distinct, none
\* of them a port another program is bound to; while it is choosing, the socket
\* of every port chosen so far is still bound, and when it returns none is.
C11_DistinctPortsSocketsHeld ==
    /\ sel_pc = "returned" =>
          /\ Len(ports) = count
          /\ \A i \in 1..Len(ports) : \A j \in 1..Len(ports) :
                i # j => ports[i] # ports[j]
          /\ \A i \in 1..Len(ports) : ports[i] \notin busy
          /\ sockets = <<>>
    /\ sel_pc = "binding" =>
          /\ Len(ports) < count
          /\ sockets = ports
          /\ \A i \in 1..Len(ports) : \A j \in 1..Len(ports) :
                i # j => ports[i] # ports[j]

C11_Witness ==
    /\ sel_pc = "returned"
    /\ count = 3
    /\ Len(ports) = 3
    /\ upper_port - lower_port >= 1000
    /\ ports[1] = upper_port

\* C12: the binds that failed in a row for the port being chosen never exceed 6;
\* the choice goes on while they are at most 5 and select_ports raises
\* RuntimeError exactly at the sixth, so one port takes at most 6 bind attempts;
\* a bind that succeeds ends the choice of its port at once, and the count
\* starts again at 0 for the next port.
C12_RetriesBoundedPerPort ==
    /\ [](retries <= 6)
    /\ [](sel_pc = "binding" => retries <= 5)
    /\ []((sel_pc = "raised") <=> (retries = 6))
    /\ [](sel_pc = "raised" => error = "RuntimeError")
    /\ [][Len(ports') = Len(ports) + 1 => (retries <= 5 /\ retries' = 0)]_vars
    /\ [][(sel_pc = "binding" /\ Len(ports') = Len(ports) /\ retries' # retries) =>
            (retries' = retries + 1)]_vars

C12_Witness ==
    /\ sel_pc = "raised"
    /\ retries = 6
    /\ Len(ports) = 1
    /\ count = 2
    /\ error = "RuntimeError"

AfterSendSignal == last.op = "send_signal"

TierRank(t) == CASE t = "listener" -> 1 [] t = "group" -> 2 [] t = "process" -> 3

\* the attempts of the last operation that handed the signal over
Delivering(a) == {i \in 1..Len(a) : a[i].outcome \in {"sent", "signalled"}}

\* C13: the tiers send_signal tries come in the order listener, group, process;
\* the listener comes first exactly when comm_port > 0; every attempt carries
\* signum; an attempt is followed by another only if it failed (the listener
\* with an error other than connection refused, the group signal with OSError),
\* so at most one attempt hands the signal over and it is the last; and
\* send_signal raises nothing.
C13_TiersInOrderOneDelivers ==
    AfterSendSignal =>
        LET a == last.attempts
        IN  /\ \A i \in 1..Len(a) : \A j \in 1..Len(a) :
                  i < j => TierRank(a[i].tier) < TierRank(a[j].tier)
            /\ (comm_port > 0) <=> (Len(a) > 0 /\ a[1].tier = "listener")
            /\ \A i \in 1..Len(a) : a[i].signum = last.arg
            /\ \A i \in 1..Len(a) : i < Len(a) => a[i].outcome \in {"failed", "OSError"}
            /\ Cardinality(Delivering(a)) <= 1
            /\ Cardinality(last.forwarded) <= 1
            /\ error = ""

C13_Witness ==
    /\ AfterSendSignal
    /\ Len(last.attempts) = 3
    /\ last.attempts[1] = Tried("listener", SIGINT, "failed")
    /\ last.attempts[2] = Tried("group", SIGINT, "OSError")
    /\ last.attempts[3] = Tried("process", SIGINT, "signalled")

\* the listener was not asked, or failed with an error other than connection refused
ListenerDidNotDeliver ==
    \/ comm_port = 0
    \/ /\ Len(last.attempts) > 0
       /\ last.attempts[1].tier = "listener"
       /\ last.attempts[1].outcome = "failed"

\* the attempts made after the listener's
FallbackAttempts ==
    IF comm_port > 0 THEN Tail(last.attempts) ELSE last.attempts

C15_RefusedCountsAsDelivered ==
    (AfterSendSignal /\ comm_port > 0 /\ Len(last.attempts) > 0
        /\ last.attempts[1].outcome = "refused") =>
        /\ last.attempts = <<Tried("listener", last.arg, "refused")>>
        /\ last.forwarded = {}
        /\ last.result = None
        /\ error = ""

C15_Witness ==
    /\ AfterSendSignal
    /\ comm_port > 0
    /\ pgid > 0
    /\ local_proc # None
    /\ last.attempts = <<Tried("listener", SIGINT, "refused")>>

\* C16: a send_signal of an ordinary signal (not 0, not SIGKILL) made with
\* comm_port = 0, pgid = 0 and no local process handle tries no tier, hands the
\* signal to nobody, raises nothing and changes no field.
C16_NoTierNoEffect ==
    [][(last'.op = "send_signal" /\ last'.arg \notin {0, SIGKILL}
            /\ comm_port = 0 /\ pgid = 0 /\ local_proc = None) =>
        /\ last'.attempts = <<>>
        /\ last'.forwarded = {}
        /\ last'.result = None
        /\ error' = ""
        /\ UNCHANGED <<pc, field_vars, hist_vars>>]_vars

C16_Witness ==
    /\ AfterSendSignal
    /\ last.arg = SIGINT
    /\ comm_port = 0
    /\ pgid = 0
    /\ local_proc = None
    /\ pc = "confirmed"
    /\ tunnel_processes # EmptyMap
    /\ last.attempts = <<>>

\* a step that runs the status query of one poll iteration
StatusQueried == pc = "status" /\ last'.op = "confirm_remote_startup" /\ pc' # pc

\* C17 (as amended): in a poll iteration that passed its timeout check while the
\* local process had already faulted, the run goes FAILED with a RuntimeError,
\* drops the process handle and kills nothing exactly when the status query
\* returns no status; when it returns a status the local process is not looked at
\* and the run goes on to the response channel or to the next iteration.  A
\* process that is running or exited with 0 never fails the run.
C17_FaultSeenWhenNoStatus ==
    [][(StatusQueried /\ local_proc # None) =>
        IF proc_status = "fault" /\ last'.result = None
        THEN /\ pc' = "failed"
             /\ error' = "RuntimeError"
             /\ local_proc' = None
             /\ run_kills' = run_kills
        ELSE /\ pc' \in {"sleep", "receive"}
             /\ last'.result = None => pc' = "sleep"
             /\ error' = error
             /\ local_proc' = local_proc]_vars

C17_Witness ==
    /\ pc = "failed"
    /\ error = "RuntimeError"
    /\ last.op = "confirm_remote_startup"
    /\ last.result = None
    /\ proc_status = "fault"
    /\ local_proc = None
    /\ now - start_time < LaunchTimeout * 1000

\* C17 as claimed: with the local process faulted, the iteration's status query
\* ends the run FAILED whatever it returns.
C17_FaultSeenAtNextIteration ==
    [][(StatusQueried /\ local_proc # None /\ proc_status = "fault") =>
        (pc' = "failed" /\ error' = "RuntimeError")]_vars

\* C18: once pre_launch has run, every field but kernel_id and port_range has
\* its as-constructed value: start_time unset, assigned_host and assigned_ip
\* empty, pid = pgid = 0, comm_ip unset, comm_port = 0, no tunnel tracked, no
\* local process handle, ip unset, and connection_info empty.
C18_PreLaunchResetsEveryField ==
    AfterPreLaunch =>
        /\ start_time = NoTime
        /\ assigned_host = ""
        /\ assigned_ip = None
        /\ pid = 0
        /\ pgid = 0
        /\ comm_ip = None
        /\ comm_port = 0
        /\ tunnel_processes = EmptyMap
        /\ local_proc = None
        /\ ip = None
        /\ connection_info = EmptyMap

\* C19 (as amended): a cleanup() leaves assigned_ip empty and tunnel_processes
\* empty with every tracked tunnel terminated, and leaves assigned_host, comm_ip,
\* comm_port, pid, pgid, the local process handle and connection_info as they
\* were; so an ordinary send_signal issued right after a cleanup still asks the
\* listener first whenever comm_port > 0.
C19_CleanupClearsIpAndTunnelsOnly ==
    /\ [][last'.op = "cleanup" =>
            /\ assigned_ip' = None
            /\ tunnel_processes' = EmptyMap
            /\ \A x \in Tracked(tunnel_processes) : terminated'[x] >= 1
            /\ UNCHANGED <<assigned_host, comm_ip, comm_port, pid, pgid, local_proc,
                           connection_info>>]_vars
    /\ [][(last.op = "cleanup" /\ last'.op = "send_signal"
                /\ last'.arg \notin {0, SIGKILL} /\ comm_port > 0) =>
            /\ Len(last'.attempts) >= 1
            /\ last'.attempts[1].tier = "listener"
            /\ last'.attempts[1].signum = last'.arg]_vars

C19_Witness ==
    /\ last.op = "cleanup"
    /\ assigned_ip = None
    /\ tunnel_processes = EmptyMap
    /\ \E x \in DOMAIN terminated : terminated[x] = 1
    /\ assigned_host # ""
    /\ comm_port > 0
    /\ comm_ip # None
    /\ connection_info # EmptyMap

\* C19 as claimed: after a cleanup() assigned_host and assigned_ip are empty,
\* comm_port, pid and pgid are 0 and no local process handle remains.
C19_CleanupClearsTheFields ==
    last.op = "cleanup" =>
        /\ assigned_host = ""
        /\ assigned_ip = None
        /\ comm_port = 0
        /\ pid = 0
        /\ pgid = 0
        /\ local_proc = None

\* C20: the response channel is read only while assigned_host is non-empty, a
\* tunnel process is spawned only by that read, and so whenever tunnel_processes
\* is non-empty assigned_host is non-empty.
C20_TunnelsOnlyWithAssignedHost ==
    /\ [](pc = "receive" => assigned_host # "")
    /\ [](tunnel_processes # EmptyMap => assigned_host # "")
    /\ [][spawned' # spawned => (pc = "receive" /\ assigned_host # ""
                                    /\ assigned_host' = assigned_host)]_vars
    /\ [][(last' # last /\ last'.op = "confirm_remote_startup" /\ last'.input # EmptyMap)
            => (pc = "receive" /\ assigned_host # "")]_vars

C20_Witness ==
    /\ JustReceived
    /\ pc = "confirmed"
    /\ Cardinality(DOMAIN tunnel_processes) = 6
    /\ assigned_host # ""
    /\ cycles = 1

\* a step of the run in which the wait on the response channel timed out
ReceiveTimedOut ==
    pc = "receive" /\ last'.op = "confirm_remote_startup" /\ last'.result = "TimeoutError"

\* the state the run is in right after such a step
AfterReceiveTimeout ==
    pc = "sleep" /\ last.op = "confirm_remote_startup" /\ last.result = "TimeoutError"

\* C21: a receive attempt that times out sends the run back to waiting: no kill,
\* no error, and connection_info, comm_ip, comm_port, tunnel_processes and the
\* tunnel processes are as before; and the iteration that follows goes on to the
\* status query whenever the time since start_time has not passed launch_timeout.
C21_ReceiveTimeoutNotFatal ==
    /\ [][ReceiveTimedOut =>
            /\ pc' = "sleep"
            /\ error' = ""
            /\ run_kills' = run_kills
            /\ last'.released = 0
            /\ UNCHANGED <<connection_info, comm_ip, comm_port, tunnel_processes,
                           spawned, terminated, local_proc>>]_vars
    /\ [][(AfterReceiveTimeout /\ now' # now /\ now' - start_time <= LaunchTimeout * 1000)
            => (pc' = "status" /\ error' = "" /\ run_kills' = run_kills)]_vars

C21_Witness ==
    /\ AfterReceiveTimeout
    /\ error = ""
    /\ run_kills = 0
    /\ assigned_host # ""
    /\ connection_info = EmptyMap
    /\ Elapsed + poll_interval <= LaunchTimeout * 1000

\* a step of the run in which the response channel was read
ReceiveAttempted == pc = "receive" /\ last'.op = "confirm_remote_startup" /\ pc' # pc

\* the places of a call among the calls an operation made
Calls(steps, call) == {i \in 1..Len(steps) : steps[i].call = call}

\* C22: a receive that sets up tunnels calls try_passwordless_ssh at most once,
\* and once whenever it spawns a tunnel process, before every spawn; when the
\* check fails no tunnel process is spawned, tunnel_processes and connection_info
\* are left as they were and the run ends FAILED (kill(), then RuntimeError).
C22_SshCheckedOnceBeforeTunnels ==
    [][ReceiveAttempted =>
        LET steps == last'.attempts
            checks == Calls(steps, "try_passwordless_ssh")
            spawns == Calls(steps, "_spawn_ssh_tunnel")
        IN  /\ Cardinality(checks) <= 1
            /\ (spawns # {} \/ spawned' # spawned) => checks # {}
            /\ \A i \in checks : \A j \in spawns : i < j
            /\ \A i \in checks : ~steps[i].ok =>
                  /\ spawns = {}
                  /\ spawned' = spawned
                  /\ tunnel_processes' = tunnel_processes
                  /\ connection_info' = connection_info
                  /\ pc' = "failed"
                  /\ error' = "RuntimeError"
                  /\ last'.result = "PermissionError"
                  /\ run_kills' = run_kills + 1]_vars

C22_Witness ==
    /\ pc = "failed"
    /\ last.op = "confirm_remote_startup"
    /\ last.result = "PermissionError"
    /\ "comm_port" \in DOMAIN last.input
    /\ last.attempts = <<Step("get_connection_info", TRUE), Step("select_ports", TRUE),
                         Step("try_passwordless_ssh", FALSE), Step("kill", TRUE)>>
    /\ spawned = {}
    /\ tunnel_processes = EmptyMap
    /\ connection_info = EmptyMap

\* C23 (as amended): a poll() returns None exactly when the status its query got
\* is absent or one of the variant's initial states, and 0 for every other status;
\* it raises nothing, releases nothing, and changes no field but the ones the
\* variant's status query assigns (container_name, assigned_host, assigned_ip).
C23_PollReportsStatusOnly ==
    [][last'.op = "poll" =>
        /\ \E a \in StatusAnswers :
              /\ last'.result = None <=> (a.status = None \/ a.status \in InitialStates)
              /\ last'.result # None => last'.result = "0"
              /\ container_name' = a.container_name
              /\ assigned_host' = a.assigned_host
              /\ assigned_ip' = a.assigned_ip
        /\ last'.released = 0
        /\ error' = ""
        /\ UNCHANGED <<pc, start_time, comm_ip, comm_port, kernel_username,
                       tunnel_processes, local_proc, ip, pid, pgid, connection_info,
                       range_vars, hist_vars>>]_vars

C23_Witness ==
    /\ last.op = "poll"
    /\ last.result = "0"
    /\ pc = "confirmed"
    /\ tunnel_processes # EmptyMap
    /\ comm_port > 0

\* C23 as claimed: a poll() changes no provisioner state.
C23_PollChangesNothing ==
    [][last'.op = "poll" => UNCHANGED <<pc, field_vars, range_vars>>]_vars

\* the terminate_container_resources calls among the calls an operation made
Releases(calls) == Calls(calls, "terminate_container_resources")

\* C24: kill(restart) and terminate(restart) do the same: with a container name
\* assigned each makes one terminate_container_resources call, with the restart
\* flag it was given, and returns what that returned; with none assigned each makes
\* no call and returns None; neither changes a field or raises.  cleanup() makes
\* the same release, and makes it before the base class's cleanup terminates the
\* tunnels.
C24_KillAndTerminateRelease ==
    /\ [][last'.op \in {"kill", "terminate"} =>
            LET calls == last'.attempts
            IN  /\ calls[1].call = last'.op
                /\ Cardinality(Releases(calls)) = (IF container_name # None THEN 1 ELSE 0)
                /\ last'.released = Cardinality(Releases(calls))
                /\ \A i \in Releases(calls) : calls[i].restart = calls[1].restart
                /\ last'.result \in (IF container_name # None THEN ReleaseResults
                                     ELSE {None})
                /\ error' = ""
                /\ UNCHANGED <<pc, field_vars, hist_vars>>]_vars
    /\ [][last'.op = "cleanup" =>
            LET calls == last'.attempts
            IN  /\ Cardinality(Releases(calls)) = (IF container_name # None THEN 1 ELSE 0)
                /\ last'.released = Cardinality(Releases(calls))
                /\ \A i \in Releases(calls) :
                      \A j \in Calls(calls, "RemoteProvisionerBase.cleanup") : i < j
                /\ tunnel_processes' = EmptyMap]_vars

C24_Witness ==
    /\ last.op = "terminate"
    /\ container_name # None
    /\ last.released = 1
    /\ last.attempts = <<Call("terminate", TRUE), Call("kill", TRUE),
                         Call("terminate_container_resources", TRUE)>>
    /\ pc = "confirmed"
    /\ tunnel_processes # EmptyMap

\* C25: with two provisioners confirming side by side, a step of the second
\* kernel's run changes none of the first kernel's tunnel_processes,
\* connection_info, comm_port, pid, pgid or its place in its own run, a step of the
\* first kernel's run changes nothing the second kernel reads, and each run times
\* out only when the time since its own start_time has passed launch_timeout.
C25_KernelsIndependent ==
    /\ [][peer' # peer =>
            UNCHANGED <<pc, error, start_time, tunnel_processes, connection_info, comm_ip,
                        comm_port, pid, pgid>>]_vars
    /\ [][peer' = peer => (peer.pc = "idle" \/ connection_info' = connection_info)]_vars
    /\ [](pc = "timed_out" => now - start_time > LaunchTimeout * 1000)
    /\ [](peer.pc = "timed_out" => now - peer.start_time > LaunchTimeout * 1000)

\* C26: a confirmation run is left only by a step of its own, to CONFIRMED, FAILED
\* or TIMED_OUT; the step that applies the payload or raises leaves the loop;
\* once the run has ended no step of a run follows until the next
\* launch; and a kill() made while the run is in progress leaves the run where it
\* is, with every field, the error and the run's own kill count unchanged.
C26_RunEndsOnlyByItsOwnStep ==
    /\ [][(InLoop /\ pc' \notin {"sleep", "status", "receive"}) =>
            /\ pc' \in {"confirmed", "failed", "timed_out"}
            /\ last'.op = "confirm_remote_startup"
            /\ pc' = "confirmed" => error' = ""
            /\ pc' = "failed" => error' = "RuntimeError"
            /\ pc' = "timed_out" => error' = "TimeoutError"]_vars
    /\ [][(InLoop /\ last' # last /\ last'.op = "confirm_remote_startup"
              /\ (error' # "" \/ (last'.input # EmptyMap /\ last'.result = None))) =>
            pc' \in {"confirmed", "failed", "timed_out"}]_vars
    /\ [][RunEnded =>
            /\ pc' \notin {"sleep", "status", "receive"}
            /\ last'.op = "confirm_remote_startup" => last' = last]_vars
    /\ [][(InLoop /\ last'.op = "kill" /\ last' # last) =>
            UNCHANGED <<pc, error, field_vars, hist_vars, now, proc_status>>]_vars

C26_Witness ==
    /\ pc = "receive"
    /\ last.op = "kill"
    /\ last.released = 1
    /\ container_name # None
    /\ run_kills = 0
    /\ error = ""

\* C27: connection_info changes only in the step of a confirmation run that
\* takes the run to CONFIRMED: poll, wait, send_signal, shutdown_listener, kill,
\* terminate and cleanup leave it as it was, and so does every step of a run that
\* ends TIMED_OUT or FAILED, a tunnel setup that raised after spawning included.
C27_OnlyConfirmationWritesConnectionInfo ==
    /\ [][connection_info' # connection_info =>
            /\ pc = "receive"
            /\ pc' = "confirmed"
            /\ last'.op = "confirm_remote_startup"]_vars
    /\ [][(last' # last /\ last'.op \in {"poll", "wait", "send_signal", "shutdown_listener",
                                          "kill", "terminate", "cleanup"}) =>
            connection_info' = connection_info]_vars
    /\ [][(InLoop /\ pc' \in {"timed_out", "failed"}) =>
            connection_info' = connection_info]_vars

\* a second run failed in its tunnel setup after the first was confirmed
C27_Witness ==
    /\ pc = "failed"
    /\ cycles > 0
    /\ connection_info # EmptyMap
    /\ \E i \in DOMAIN last.attempts : last.attempts[i] = Step("_spawn_ssh_tunnel", FALSE)

\* C28: an iteration of the confirmation loop sleeps one poll interval, then
\* compares the time since start_time with launch_timeout, and only then queries
\* the status, a receive coming only after a status query: the status is queried
\* only straight after a sleep that left the elapsed time at or below the timeout,
\* so never before one poll interval has passed; the run times out only when the
\* elapsed time is strictly greater, and a sleep that ends beyond the timeout ends
\* the run TIMED_OUT with one kill and without a status query or a receive.
C28_SleepThenDeadlineThenQuery ==
    /\ [][(pc' = "status" /\ pc # "status") =>
            /\ pc = "sleep"
            /\ now' = now + poll_interval
            /\ now' - start_time <= LaunchTimeout * 1000]_vars
    /\ [][(pc' = "receive" /\ pc # "receive") => (pc = "status" /\ now' = now)]_vars
    /\ [](pc \in {"status", "receive"} =>
            /\ now - start_time >= poll_interval
            /\ now - start_time <= LaunchTimeout * 1000)
    /\ [][(pc = "sleep" /\ pc' # "sleep") => now' = now + poll_interval]_vars
    /\ [][(InLoop /\ pc' = "timed_out") =>
            /\ pc = "sleep"
            /\ now' - start_time > LaunchTimeout * 1000]_vars
    /\ [][(pc = "sleep" /\ now' - start_time > LaunchTimeout * 1000) =>
            /\ pc' = "timed_out"
            /\ error' = "TimeoutError"
            /\ run_kills' = run_kills + 1
            /\ last'.input = EmptyMap
            /\ last'.attempts = <<>>
            /\ UNCHANGED <<field_vars, spawned>>]_vars

\* the run went on at the deadline itself and timed out one poll interval later
C28_Witness ==
    /\ pc = "timed_out"
    /\ error = "TimeoutError"
    /\ now - start_time = LaunchTimeout * 1000 + poll_interval
    /\ run_kills = 1
    /\ last.released = 1

\* C29: when receiving or applying the payload fails with anything but a timeout
\* of the receive (the channel raised, the port range gave no port, the
\* passwordless SSH check failed, a tunnel could not be spawned, the payload was
\* null), the run ends FAILED with RuntimeError, the cause being what was raised:
\* kill() is called once, as the last call of the step, and the loop makes no
\* further step.
C29_ReceiveFailureKillsOnceAndRaises ==
    /\ [][(pc = "receive" /\ last' # last /\ last'.op = "confirm_remote_startup"
              /\ last'.result \notin {None, "TimeoutError"}) =>
            /\ pc' = "failed"
            /\ error' = "RuntimeError"
            /\ last'.result \in {"OSError", "RuntimeError", "PermissionError", "TypeError"}
            /\ run_kills' = run_kills + 1
            /\ Cardinality(Calls(last'.attempts, "kill")) = 1
            /\ last'.attempts[Len(last'.attempts)] = Step("kill", TRUE)
            /\ last'.released = KillReleases(container_name)]_vars
    /\ [][(pc = "receive" /\ last' # last /\ last'.op = "confirm_remote_startup"
              /\ \E i \in DOMAIN last'.attempts : ~last'.attempts[i].ok) =>
            (pc' = "failed" /\ last'.result \notin {None, "TimeoutError"})]_vars
    /\ [][(pc = "receive" /\ pc' = "failed") =>
            (last'.result \notin {None, "TimeoutError"} /\ run_kills' = run_kills + 1)]_vars
    /\ [][pc = "failed" =>
            /\ pc' \notin {"sleep", "status", "receive"}
            /\ last'.op = "confirm_remote_startup" => (last' = last /\ run_kills' = run_kills)]_vars

\* a null payload ended the run
C29_Witness ==
    /\ pc = "failed"
    /\ error = "RuntimeError"
    /\ last.op = "confirm_remote_startup"
    /\ last.result = "TypeError"
    /\ last.attempts = <<Step("get_connection_info", TRUE), Step("kill", TRUE)>>
    /\ run_kills = 1

\* the step of a run that applied a payload
PayloadApplied ==
    pc = "receive" /\ pc' = "confirmed" /\ last'.op = "confirm_remote_startup"

\* the payload has the entry, whatever it holds
Carries(payload, key) == key \in DOMAIN payload

\* the payload has the entry and it holds a number other than 0
CarriesProcessId(payload, key) ==
    Carries(payload, key) /\ payload[key] \notin {0, NotAnInteger}

\* C30: when a payload is applied, the local process handle is dropped exactly
\* when the payload carries a pid or a pgid that is not empty and is a number, and
\* the assigned ip is not local; otherwise the handle stays as it was. The pid and
\* pgid entries never reach connection_info.
C30_HandleDroppedForRemoteProcessId ==
    /\ [][PayloadApplied =>
            LET remote == CarriesProcessId(last'.input, "pid")
                          \/ CarriesProcessId(last'.input, "pgid")
            IN  /\ local_proc' = IF remote /\ ~IpIsLocal(assigned_ip) THEN None
                                 ELSE local_proc
                /\ assigned_ip' = assigned_ip]_vars
    /\ [](~Carries(connection_info, "pid") /\ ~Carries(connection_info, "pgid"))

\* a payload whose only process entry is a pid that is not a number was applied
\* on a remote ip, and the handle is still there
C30_Witness ==
    /\ pc = "confirmed"
    /\ last.op = "confirm_remote_startup"
    /\ Carries(last.input, "pid")
    /\ last.input["pid"] = NotAnInteger
    /\ ~Carries(last.input, "pgid")
    /\ ~IpIsLocal(assigned_ip)
    /\ local_proc # None
    /\ connection_info # EmptyMap

\* C30 as stated: the handle is dropped whenever the payload carries a pid or a
\* pgid entry and the assigned ip is not local.
C30_HandleDroppedWheneverCarried ==
    [][PayloadApplied =>
        LET carried == Carries(last'.input, "pid") \/ Carries(last'.input, "pgid")
        IN  local_proc' = IF carried /\ ~IpIsLocal(assigned_ip) THEN None
                          ELSE local_proc]_vars

\* C31: the container provisioner's pid and pgid are both 0 in every reachable
\* state: before the launch, between launch_kernel and the confirmation, during
\* the confirmation run and after it, whatever the payload carried.
C31_PidAndPgidAlwaysZero == pid = 0 /\ pgid = 0

\* C32: after a payload without comm_port is applied comm_port is 0 and no
\* EG_COMM tunnel is tracked; with a comm_port and tunneling disabled comm_ip is
\* the assigned ip, comm_port the payload's, and no tunnel process is spawned or
\* tracked; with a comm_port and tunneling enabled a sixth tunnel process, new
\* with this step, is tracked under EG_COMM, forwards its local port to the
\* payload's comm_port, and comm_ip is 127.0.0.1 while comm_port and
\* connection_info.comm_port are that local port.
C32_ListenerAddressAfterConfirmation ==
    [][PayloadApplied =>
        LET payload == last'.input
            tp == tunnel_processes'
        IN  IF ~Carries(payload, "comm_port")
            THEN /\ comm_port' = 0
                 /\ COMMUNICATION \notin DOMAIN tp
            ELSE IF ~tunneling_enabled
            THEN /\ comm_ip' = assigned_ip
                 /\ comm_port' = payload["comm_port"]
                 /\ connection_info'["comm_port"] = payload["comm_port"]
                 /\ tp = tunnel_processes
                 /\ tp = EmptyMap
                 /\ spawned' = spawned
            ELSE /\ DOMAIN tp = Range(ChannelNames) \cup {COMMUNICATION}
                 /\ Cardinality({tp[ch].id : ch \in DOMAIN tp}) = 6
                 /\ tp[COMMUNICATION] \in spawned' \ spawned
                 /\ tp[COMMUNICATION].remote = payload["comm_port"]
                 /\ tp[COMMUNICATION].port \in EphemeralPorts
                 /\ comm_ip' = LoopbackIp
                 /\ comm_port' = tp[COMMUNICATION].port
                 /\ connection_info'["comm_port"] = tp[COMMUNICATION].port
                 /\ connection_info'["ip"] = LoopbackIp]_vars

\* the listener is reached through a sixth tunnel
C32_Witness ==
    /\ pc = "confirmed"
    /\ last.op = "confirm_remote_startup"
    /\ tunneling_enabled
    /\ Carries(last.input, "comm_port")
    /\ COMMUNICATION \in DOMAIN tunnel_processes
    /\ comm_port = tunnel_processes[COMMUNICATION].port
    /\ comm_port # last.input["comm_port"]
    /\ comm_ip = LoopbackIp

\* C33: a wait() that finds a local process handle hands back that handle's wait
\* and never polls. One that finds none polls at most max_poll_attempts times,
\* has slept one poll interval after each poll that answered None, returns the
\* first answer that is not None as soon as it is seen, returns None once
\* max_poll_attempts polls have answered None, and always returns.
C33_WaitPollsBoundedlyAndReturns ==
    /\ [](/\ waiting.polls <= max_poll_attempts
          /\ waiting.delegated =>
                /\ waiting.pc = "returned"
                /\ waiting.polls = 0
                /\ waiting.slept = 0
                /\ waiting.poll_val \in ExitCodes
          /\ waiting.pc = "polling" => waiting.slept = waiting.polls * poll_interval
          /\ waiting.pc = "sleeping" =>
                /\ waiting.poll_val = None
                /\ waiting.slept = (waiting.polls - 1) * poll_interval
          /\ (waiting.pc = "returned" /\ ~waiting.delegated) =>
                \/ /\ waiting.poll_val # None
                   /\ waiting.polls >= 1
                   /\ waiting.slept = (waiting.polls - 1) * poll_interval
                \/ /\ waiting.poll_val = None
                   /\ waiting.polls = max_poll_attempts
                   /\ waiting.slept = max_poll_attempts * poll_interval)
    /\ [][(waiting.pc = "idle" /\ waiting'.pc # "idle") =>
            waiting'.delegated = (local_proc # None)]_vars
    /\ [][(waiting.pc = "returned" /\ waiting'.pc = "idle") =>
            /\ last'.op = "wait"
            /\ last'.result = waiting.poll_val
            /\ Len(last'.attempts) = waiting.polls]_vars
    /\ (waiting.pc \in {"polling", "sleeping"}) ~> (waiting.pc = "returned")

\* every attempt was used and none answered
C33_Witness ==
    /\ waiting.pc = "returned"
    /\ ~waiting.delegated
    /\ local_proc = None
    /\ waiting.polls = max_poll_attempts
    /\ waiting.poll_val = None

\* C34: every tunnel process spawned so far is either tracked in tunnel_processes
\* or has been terminated.
C34_NoTunnelProcessLost ==
    \A q \in spawned :
        \/ \E ch \in DOMAIN tunnel_processes : tunnel_processes[ch] = q
        \/ (q.id \in DOMAIN terminated /\ terminated[q.id] > 0)

\* C35: when a select_ports call is over, by its return or by the RuntimeError of
\* a select_socket whose retries are used up, none of the sockets it bound is
\* still held.
C35_NoSocketHeldAfterSelectPorts ==
    sel_pc \in {"returned", "raised"} => sockets = <<>>

===========================================================================
